---- MODULE Spec2Model ----
(***************************************************************************)
(* Model of the scraping orchestration engine of the sales-automation      *)
(* platform: scraper/src/services/scraperService.js (first revision of the *)
(* file, lines 1-986), with the relational store reduced to the two tables *)
(* the service writes (scraping_sessions, scraping_results).               *)
(*                                                                         *)
(* One action stands for the code a run executes between two awaits.  The  *)
(* inter-page and inter-category delays touch no state, so each is folded  *)
(* into the step that precedes it.                                         *)
(***************************************************************************)
EXTENDS Integers, Sequences, FiniteSets, TLC

VARIABLES
  isRunning,    \* [instance -> BOOLEAN]   ScraperService.isRunning
  cronActive,   \* [instance -> BOOLEAN]   cronJobs holds the started 'automatic' job
  stats,        \* [instance -> record]    ScraperService.stats
  runs,         \* [run id -> record]      one startFullScraping() invocation each
  sessions,     \* [run id -> record]      rows of scraping_sessions, keyed by uuid
  leadRows,     \* sequence of records     rows of scraping_results, in id order
  instances,    \* the scraper processes deployed against the store
  maxRuns,      \* startFullScraping() calls accepted in one behaviour
  dbPool,       \* database.pool is set (storage reachable at startup)
  dbFaulty,     \* a query may be rejected (connection loss)
  useApify,     \* apifyScraper initialised and USE_APIFY === 'true'
  maxCats,      \* categories of each source that are walked in this behaviour
  nextLeft,     \* 'next page' indicators the sites still serve
  listingsLeft, \* listing entries the sites still serve
  cands,        \* candidate leads handed to calculateConfidenceScore
  scores,       \* their scores, in hundredths; -1 before the call
  req,          \* [url -> record]         one makeRequest() call each
  stopAt,       \* [run id -> record]      where the run was when stop() was called
  options,      \* [run id -> record]      the options argument of startFullScraping
  limiter,      \* record                  rateLimiter: the window and who may fetch
  cb,           \* [world -> record]       the cache-backed revision: service, store, cache
  web,          \* [url -> page]           the pages a fixed dataset of the sites serves
  boots,        \* [instance -> 0..1]      parity of the number of process starts
  lock          \* record                  the lock key in Redis and the callers of acquireLock

vars == <<isRunning, cronActive, stats, runs, sessions, leadRows, instances,
          maxRuns, dbPool, dbFaulty, useApify, maxCats, nextLeft, listingsLeft, cands, scores,
          req, stopAt, options, limiter, cb, web, boots, lock>>

envVars   == <<instances, maxRuns, dbPool, dbFaulty, useApify, maxCats>>
scoreVars == <<cands, scores>>
reqVars   == <<req>>
stopVars  == <<stopAt>>
optVars   == <<options>>
limVars   == <<limiter>>
cbVars    == <<cb, web>>
bootVars  == <<boots>>
lockVars  == <<lock>>

\* JavaScript null / undefined and SQL NULL.
NULL == "null"

-----------------------------------------------------------------------------
(* Configuration: scraperService.js lines 20-66.                           *)

\* Model bounds.
MaxCategories   == 1    \* categories of each source that are walked
MaxLeadsPerPage == 1    \* listing entries on one page
MaxListings     == 1    \* listing entries served in one behaviour of Spec
MaxNextSignals  == 1    \* 'next page' indicators served in one behaviour of Spec

SourceNames == <<"paginasAmarillas", "seccionAmarilla", "pymesOrgMx">>

ConfigCategories(s) ==
  CASE s = "paginasAmarillas" -> <<"restaurantes", "servicios", "comercio", "construccion">>
    [] s = "seccionAmarilla"  -> <<"restaurantes", "servicios", "tiendas", "profesionales">>
    [] s = "pymesOrgMx"       -> <<"tecnologia", "servicios", "manufactura", "comercio">>

SourceEnabled(s) == TRUE

Categories(s) ==
  LET all == ConfigCategories(s)
      n   == IF maxCats < Len(all) THEN maxCats ELSE Len(all)
  IN  SubSeq(all, 1, n)

maxPagesPerCategory == 10

\* config.maxRetries and config.retryDelay (milliseconds), by default.
maxRetries == 3
retryDelay == 1000

\* config.maxConcurrentRequests, config.rateLimitDelay (ms), and the
\* rateLimiter's duration (s).
maxConcurrentRequests == 5
rateLimitDelay == 200
LimiterDuration == 1

ApifyPageLimit == 50

Instances == {"i1", "i2"}
RunOrder  == <<"r1", "r2">>
RunIds    == {RunOrder[k] : k \in 1..Len(RunOrder)}

-----------------------------------------------------------------------------
(* Extractor: pure functions over the listing entries of a page.           *)

Truthy(x) == x \notin {NULL, ""}

\* text.trim().replace(/\s+/g, ' '); '' for a falsy argument.
cleanText(text) ==
  CASE text = NULL            -> ""
    [] text = ""              -> ""
    [] text = "   "           -> ""
    [] text = "  Acme   SA "  -> "Acme SA"
    [] text = " Calle  1 "    -> "Calle 1"
    [] OTHER                  -> text

\* First match of the Mexican phone pattern with '-' and blanks removed,
\* null when the text is empty or holds no match.
extractPhone(text) ==
  CASE text = NULL               -> NULL
    [] text = ""                 -> NULL
    [] text = "55-1234-5678"     -> "5512345678"
    [] text = "55-8765-4321"     -> "5587654321"
    [] text = "Tel. 55 1234 5678" -> "5512345678"
    [] text = "+52 55 1234 5678" -> "+525512345678"
    [] OTHER                     -> NULL

Lead(n, p, e, a, w, c) ==
  [company_name |-> n, phone |-> p, email |-> e,
   address |-> a, website |-> w, category |-> c]

\* `category || cleanText(...)`: the category argument wins when truthy.
OrElse(a, b) == IF Truthy(a) THEN a ELSE b

\* A rule that keeps every listing entry, named or not.
ParseListingUnchecked(entry, category) ==
  <<Lead(cleanText(entry.name), extractPhone(entry.phone), NULL,
         cleanText(entry.address), entry.href,
         OrElse(category, cleanText(entry.category)))>>

\* parsePaginasAmarillas / parseSeccionAmarilla: the same rules over
\* different selectors; the lead has no email field.
ParseListing(entry, category) ==
  LET lead == Lead(cleanText(entry.name), extractPhone(entry.phone), NULL,
                   cleanText(entry.address), entry.href,
                   OrElse(category, cleanText(entry.category)))
  IN  IF Truthy(lead.company_name) /\ (Truthy(lead.phone) \/ Truthy(lead.address))
      THEN <<lead>> ELSE <<>>

parsePaginasAmarillas(entry, category) == ParseListing(entry, category)

parseSeccionAmarilla(entry, category) == ParseListing(entry, category)

\* parsePymesOrgMx: the first anchor of the entry gives name and link.
parsePymesOrgMx(entry, category) ==
  LET name == cleanText(entry.name)
  IN  IF Truthy(name) /\ Truthy(entry.href)
      THEN <<Lead(name, NULL, NULL, NULL, NULL, category)>> ELSE <<>>

\* The parser parseLeads selects for the source: its switch.
ParseEntry(entry, source, category) ==
  CASE source = "paginasAmarillas" -> parsePaginasAmarillas(entry, category)
    [] source = "seccionAmarilla"  -> parseSeccionAmarilla(entry, category)
    [] source = "pymesOrgMx"       -> parsePymesOrgMx(entry, category)
    [] OTHER                       -> <<>>

\* $(selector).each(...): the entries are parsed in document order.
RECURSIVE ParseEach(_, _, _, _)
ParseEach(entries, source, category, k) ==
  IF k > Len(entries) THEN <<>>
  ELSE ParseEntry(entries[k], source, category) \o ParseEach(entries, source, category, k + 1)

parseLeads(entries, source, category) == ParseEach(entries, source, category, 1)

\* normalizeLeadFromApify: `x || null` turns every falsy field into null.
OrNull(x) == IF Truthy(x) THEN x ELSE NULL

normalizeLeadFromApify(item, category) ==
  Lead(OrNull(item.name), OrNull(item.phone), OrNull(item.email),
       OrNull(item.address), OrNull(item.href),
       OrNull(OrElse(category, item.category)))

RECURSIVE MapApify(_, _, _)
MapApify(items, category, k) ==
  IF k > Len(items) THEN <<>>
  ELSE <<normalizeLeadFromApify(items[k], category)>> \o MapApify(items, category, k + 1)

-----------------------------------------------------------------------------
(* Lead Store: scraping_results.                                           *)

\* SQL '=': never true when either side is NULL.
SqlEq(a, b) == a # NULL /\ b # NULL /\ a = b

\* SELECT id FROM scraping_results WHERE business_name = $1 AND phone = $2
DuplicateRows(rows, companyName, phone) ==
  {k \in 1..Len(rows) : SqlEq(rows[k].business_name, companyName)
                        /\ SqlEq(rows[k].phone, phone)}

\* In hundredths: 0.5 + 0.3 + 0.2 + 0.15 + 0.1 + 0.05, capped at 1.0.
Min(a, b) == IF a < b THEN a ELSE b

\* A score without its cap.
calculateConfidenceScoreUncapped(lead) ==
  50 + (IF Truthy(lead.phone) THEN 30 ELSE 0) + (IF Truthy(lead.email) THEN 20 ELSE 0)
     + (IF Truthy(lead.website) THEN 15 ELSE 0) + (IF Truthy(lead.address) THEN 10 ELSE 0)
     + (IF Truthy(lead.category) THEN 5 ELSE 0)

\* A score that ignores the category.
calculateConfidenceScoreNoCategory(lead) ==
  Min(100, 50 + (IF Truthy(lead.phone) THEN 30 ELSE 0) + (IF Truthy(lead.email) THEN 20 ELSE 0)
              + (IF Truthy(lead.website) THEN 15 ELSE 0)
              + (IF Truthy(lead.address) THEN 10 ELSE 0))

calculateConfidenceScore(lead) ==
  LET s0 == 50
      s1 == IF Truthy(lead.phone)    THEN s0 + 30 ELSE s0
      s2 == IF Truthy(lead.email)    THEN s1 + 20 ELSE s1
      s3 == IF Truthy(lead.website)  THEN s2 + 15 ELSE s2
      s4 == IF Truthy(lead.address)  THEN s3 + 10 ELSE s3
      s5 == IF Truthy(lead.category) THEN s4 + 5  ELSE s4
  IN  Min(s5, 100)

\* INSERT INTO scraping_results (...) VALUES (...) RETURNING id
InsertedRow(rows, lead, source, sessionId) ==
  [id |-> Len(rows) + 1, job_id |-> sessionId, source |-> source,
   business_name |-> lead.company_name, phone |-> lead.phone,
   email |-> lead.email, website |-> lead.website, address |-> lead.address,
   category |-> lead.category,
   confidence_score |-> calculateConfidenceScore(lead)]

-----------------------------------------------------------------------------
(* Inputs: what the sites and the Apify backend may serve.                 *)

Entry(n, p, a, h) == [name |-> n, phone |-> p, address |-> a, href |-> h, category |-> ""]

\* Listing entries of a fetched page, before parsing.
PageEntries ==
  { Entry("  Acme   SA ", "55-1234-5678", " Calle  1 ", "http://acme.mx"),
    Entry("  Acme   SA ", "", " Calle  1 ", NULL),
    Entry("  Acme   SA ", "", "", "http://acme.mx"),
    Entry("", "55-1234-5678", "", NULL) }

Item(n, p, e, a) == [name |-> n, phone |-> p, email |-> e, address |-> a,
                     href |-> NULL, category |-> NULL]

\* Dataset items returned by the Apify backend.
ApifyItems ==
  { Item("Acme SA", "5512345678", "info@acme.mx", "Calle 1"),
    Item("Acme SA", NULL, NULL, NULL),
    Item(NULL, "5512345678", NULL, NULL) }

SeqsUpTo(S, n) == UNION {[1..k -> S] : k \in 0..n}

\* Pages the sites can still serve: at most MaxLeadsPerPage entries, within
\* the listing budget of the behaviour.
Servable(S) ==
  SeqsUpTo(S, Min(MaxLeadsPerPage, listingsLeft))

\* A query either succeeds (TRUE) or is rejected (FALSE).
QueryOutcomes == IF dbFaulty THEN {TRUE, FALSE} ELSE {TRUE}

-----------------------------------------------------------------------------
(* Result records of scrapeCategory, scrapeSource and startFullScraping.   *)

ZeroCategory == [totalLeads |-> 0, newLeads |-> 0, duplicates |-> 0, pages |-> 0]

ZeroSource == [totalLeads |-> 0, newLeads |-> 0, duplicates |-> 0, errors |-> 0,
               categories |-> <<>>]

ZeroResults == [totalLeads |-> 0, newLeads |-> 0, duplicates |-> 0, errors |-> 0,
                sources |-> <<>>]

\* No category has ended yet in the run.  Otherwise: the result the last
\* scrapeCategory call returned, with the scrapePage calls that succeeded
\* and the saveLead calls that threw during it.
NoneEnded == [any |-> FALSE, res |-> ZeroCategory, okPages |-> 0, threw |-> 0]

\* this.stats as the constructor leaves it.
ZeroStats == [totalSessions |-> 0, totalLeads |-> 0]

IdleRun ==
  [pc |-> "idle", inst |-> NULL, outcome |-> "none",
   src |-> 0, cat |-> 0, page |-> 0, hasMore |-> FALSE, next |-> FALSE,
   fetches |-> 0, leads |-> <<>>, cacheFailed |-> FALSE, slept |-> 0, fellBack |-> FALSE,
   okPages |-> 0, threw |-> 0, ended |-> NoneEnded,
   catRes |-> ZeroCategory, srcRes |-> ZeroSource, results |-> ZeroResults]

\* The promise of startFullScraping has settled; its locals are gone.
Settled(u, outcome) ==
  [IdleRun EXCEPT !.pc = "done", !.inst = u.inst, !.outcome = outcome]

NoSession == [status |-> "none", closed |-> FALSE, error |-> FALSE, final_stats |-> ZeroResults]

RunningSession == [NoSession EXCEPT !.status = "running"]

SourceOf(u)   == SourceNames[u.src]
CategoryOf(u) == Categories(SourceOf(u))[u.cat]

\* scrapeSource's special case: pymesOrgMx is walked through Apify.
ApifySource(u) == SourceOf(u) = "pymesOrgMx" /\ useApify

\* scrapePage's special case: paginasAmarillas pages try Apify first.
ApifyPage(u) == SourceOf(u) = "paginasAmarillas" /\ useApify

\* A page loop whose bound is off by one.
LoopContinuesOnePastCap(hasMore, page) == hasMore /\ page <= maxPagesPerCategory + 1

\* while (hasMorePages && page <= 10)
LoopContinues(hasMore, page) == hasMore /\ page <= maxPagesPerCategory

\* The first statements of scrapeCategory, or the head of the Apify
\* category loop; the run then waits for the page (or the dataset).
EnterCategory(u) ==
  IF ApifySource(u)
  THEN [u EXCEPT !.pc = "apify", !.catRes = ZeroCategory, !.leads = <<>>,
                 !.page = 0, !.hasMore = FALSE, !.fetches = 0,
                 !.okPages = 0, !.threw = 0]
  ELSE [u EXCEPT !.pc = "page", !.catRes = ZeroCategory, !.leads = <<>>,
                 !.page = 1, !.hasMore = TRUE, !.fetches = 0,
                 !.okPages = 0, !.threw = 0]

\* First enabled source at or after index k; Len + 1 when there is none.
NextEnabled(k) ==
  LET S == {j \in k..Len(SourceNames) : SourceEnabled(SourceNames[j])}
  IN  IF S = {} THEN Len(SourceNames) + 1
      ELSE CHOOSE j \in S : \A m \in S : j <= m

\* for (const [sourceName, sourceConfig] of Object.entries(config.sources))
EnterSource(u, k) ==
  LET j == NextEnabled(k)
  IN  IF j > Len(SourceNames)
      THEN [u EXCEPT !.pc = "close", !.src = j]
      ELSE EnterCategory([u EXCEPT !.src = j, !.cat = 1, !.srcRes = ZeroSource])

\* A delay that returns at once.
delaySkipped(u, ms) == u

\* await this.delay(ms): the time the run has slept since its last page
\* fetch.
delay(u, ms) == [u EXCEPT !.slept = u.slept + ms]

\* scrapeSource returned: startFullScraping lines 218-222.
EndSource(u) ==
  LET s == u.srcRes
      t == u.results
  IN  EnterSource([u EXCEPT !.results =
                     [totalLeads |-> t.totalLeads + s.totalLeads,
                      newLeads   |-> t.newLeads + s.newLeads,
                      duplicates |-> t.duplicates + s.duplicates,
                      errors     |-> t.errors + s.errors,
                      sources    |-> (SourceOf(u) :> s) @@ t.sources]],
                  u.src + 1)

\* A category loop that gives up the source after a category.
NextCategoryEndsSource(u) == EndSource(u)

NextCategory(u) ==
  IF u.cat < Len(Categories(SourceOf(u)))
  THEN EnterCategory([u EXCEPT !.cat = u.cat + 1])
  ELSE EndSource(u)

\* A category's results are added to the source's: lines 331-336 (and
\* 301-313 on the Apify path).
EndCategory(u) ==
  LET c == u.catRes
      s == u.srcRes
  IN  NextCategory(delay([u EXCEPT
                    !.ended = IF ApifySource(u) THEN u.ended
                              ELSE [any |-> TRUE, res |-> c,
                                    okPages |-> u.okPages, threw |-> u.threw],
                    !.srcRes =
                      [s EXCEPT !.totalLeads = s.totalLeads + c.totalLeads,
                                !.newLeads   = s.newLeads + c.newLeads,
                                !.duplicates = s.duplicates + c.duplicates,
                                !.categories = (CategoryOf(u) :> c) @@ s.categories]],
                            rateLimitDelay * 2))

\* The catch of the Apify category loop: lines 315-318.
ApifyCategoryFailed(u) ==
  NextCategory([u EXCEPT !.slept = 0, !.srcRes.errors = u.srcRes.errors + 1])

\* End of the page body: lines 382-385, then the loop condition.
EndPage(u) ==
  LET v == delay([u EXCEPT !.hasMore = u.next, !.page = u.page + 1], rateLimitDelay)
  IN  IF LoopContinues(v.hasMore, v.page) THEN [v EXCEPT !.pc = "page"]
      ELSE EndCategory(v)

\* A lead loop that leaves the page after its first lead.
AfterLeadSkipsRest(u) == IF ApifySource(u) THEN EndCategory(u) ELSE EndPage(u)

\* One saveLead call has settled; the lead loop goes on.
AfterLead(u) ==
  LET v == [u EXCEPT !.leads = Tail(u.leads)]
  IN  IF v.leads # <<>> THEN [v EXCEPT !.pc = "check"]
      ELSE IF ApifySource(v) THEN EndCategory(v)
      ELSE EndPage(v)

\* A page (or dataset) has arrived with these leads.
WithLeads(u, leads) ==
  IF leads # <<>> THEN [u EXCEPT !.pc = "check", !.leads = leads]
  ELSE IF ApifySource(u) THEN EndCategory(u)
  ELSE EndPage(u)

-----------------------------------------------------------------------------
(* Session Tracker: scraping_sessions.                                     *)

\* UPDATE scraping_sessions SET status = $1, final_stats = $2, ...
\* WHERE uuid = $3; skipped without a pool, and a rejected query is logged
\* and swallowed.
updateScrapingSession(rows, sessionId, status, finalStats, failed, ok) ==
  IF dbPool /\ ok /\ rows[sessionId].status # "none"
  THEN [rows EXCEPT ![sessionId] =
          [status |-> status, closed |-> TRUE, error |-> failed,
           final_stats |-> finalStats]]
  ELSE rows

RECURSIVE SumTotalLeads(_, _)
SumTotalLeads(rows, ids) ==
  IF ids = {} THEN 0
  ELSE LET r == CHOOSE x \in ids : TRUE
       IN  rows[r].final_stats.totalLeads + SumTotalLeads(rows, ids \ {r})

\* A loadStats that counts every stored session, whatever its status.
loadStatsOfAllSessions(rows, cur, ok) ==
  IF ~dbPool \/ ~ok THEN cur
  ELSE LET all == {r \in DOMAIN rows : rows[r].status # "none"}
       IN  [totalSessions |-> Cardinality(all),
            totalLeads    |-> SumTotalLeads(rows, all)]

\* loadStats: SELECT COUNT(*), SUM(COALESCE((final_stats->>'totalLeads')::int, 0))
\* FROM scraping_sessions WHERE status = 'completed'.  Without a pool the
\* call returns at once, and a rejected query is logged: this.stats keeps
\* the value cur it had.
loadStats(rows, cur, ok) ==
  IF ~dbPool \/ ~ok THEN cur
  ELSE LET done == {r \in DOMAIN rows : rows[r].status = "completed"}
       IN  [totalSessions |-> Cardinality(done),
            totalLeads    |-> SumTotalLeads(rows, done)]

\* A finally block that leaves the flag as it is.
FinallySkipped(flags, i) == flags

\* The finally block of startFullScraping.
Finally(flags, i) == [flags EXCEPT ![i] = FALSE]

-----------------------------------------------------------------------------
(* Actions.                                                                *)

Active(r) == runs[r].pc \notin {"idle", "done"}

\* Session ids are fresh: the next run takes the first unused id.
FreshRun(r) ==
  \E k \in 1..Min(Len(RunOrder), maxRuns) :
     /\ r = RunOrder[k]
     /\ runs[r].pc = "idle"
     /\ \A j \in 1..(k - 1) : runs[RunOrder[j]].pc # "idle"

Begin(r, i) ==
  /\ isRunning' = [isRunning EXCEPT ![i] = TRUE]
  /\ runs' = [runs EXCEPT ![r] = [IdleRun EXCEPT !.pc = "create", !.inst = i]]

\* startFullScraping() from the API while idle: lines 189-200, up to the
\* await of createScrapingSession.
StartFullScraping(r, i) ==
  /\ i \in instances
  /\ FreshRun(r)
  /\ ~isRunning[i]
  /\ Begin(r, i)
  /\ UNCHANGED <<cronActive, stats, sessions, leadRows, envVars, nextLeft, listingsLeft, scoreVars, reqVars, stopVars, optVars, limVars, cbVars, bootVars, lockVars>>

\* startFullScraping(options = {}): no sources, no categories named.
NoOptions == [sources |-> {}, categories |-> {}]

\* The options the per-source and test routes pass: one source id (known
\* or not) and one category.
RouteOptions ==
  {[sources |-> {s}, categories |-> {c}] :
     s \in {"seccionAmarilla", "directorioX"}, c \in {"restaurantes", "hoteles"}}

\* startFullScraping(options) from POST /start/:source or POST /test: the
\* same lines 189-200; options is logged and handed on, never inspected.
StartWithOptions(r, i, opts) ==
  /\ i \in instances
  /\ FreshRun(r)
  /\ ~isRunning[i]
  /\ Begin(r, i)
  /\ options' = [options EXCEPT ![r] = opts]
  /\ UNCHANGED <<cronActive, stats, sessions, leadRows, envVars, nextLeft, listingsLeft,
                 scoreVars, reqVars, stopVars, limVars, cbVars, bootVars, lockVars>>

\* startFullScraping() while isRunning: throws 'already in progress'.
StartRejected(i) ==
  /\ i \in instances
  /\ isRunning[i]
  /\ UNCHANGED vars

\* A cron callback that starts a run whatever the flag says.
TickStartsAlways(running) == TRUE

\* The cron callback's test: if (!this.isRunning).
TickStarts(running) == ~running

\* The cron callback: lines 169-176.
CronTick(r, i) ==
  /\ i \in instances
  /\ cronActive[i]
  /\ IF TickStarts(isRunning[i])
     THEN FreshRun(r) /\ Begin(r, i)
     ELSE r = RunOrder[1] /\ UNCHANGED <<isRunning, runs>>
  /\ UNCHANGED <<cronActive, stats, sessions, leadRows, envVars, nextLeft, listingsLeft, scoreVars, reqVars, stopVars, optVars, limVars, cbVars, bootVars, lockVars>>

\* stop(): lines 912-928.
Stop(i) ==
  /\ i \in instances
  /\ cronActive' = [cronActive EXCEPT ![i] = FALSE]
  /\ isRunning' = [isRunning EXCEPT ![i] = FALSE]
  /\ UNCHANGED <<stats, runs, sessions, leadRows, envVars, nextLeft, listingsLeft, scoreVars, reqVars, stopVars, optVars, limVars, cbVars, bootVars, lockVars>>

\* No stop() has reached the run.
NoStop == [src |-> 0, cat |-> 0, pages |-> 0]

\* Where stop() finds a run: its source and category, and the pages of
\* that category fetched so far, the one in flight included.
StopPoint(u) ==
  [src |-> u.src, cat |-> u.cat,
   pages |-> IF u.pc = "page" THEN u.fetches + 1 ELSE u.fetches]

\* stop() as in Stop, with the position of the runs in progress recorded.
StopObserved(i) ==
  /\ i \in instances
  /\ cronActive' = [cronActive EXCEPT ![i] = FALSE]
  /\ isRunning' = [isRunning EXCEPT ![i] = FALSE]
  /\ stopAt' = [r \in RunIds |->
                  IF Active(r) /\ runs[r].inst = i /\ stopAt[r] = NoStop
                  THEN StopPoint(runs[r]) ELSE stopAt[r]]
  /\ UNCHANGED <<stats, runs, sessions, leadRows, envVars, nextLeft, listingsLeft,
                 scoreVars, reqVars, optVars, limVars, cbVars, bootVars, lockVars>>

\* createScrapingSession, then the source loop up to its first await.
CreateScrapingSession(r) ==
  /\ runs[r].pc = "create"
  /\ \E ok \in QueryOutcomes :
       sessions' = IF dbPool /\ ok THEN [sessions EXCEPT ![r] = RunningSession]
                   ELSE sessions
  /\ runs' = [runs EXCEPT ![r] = EnterSource(runs[r], 1)]
  /\ UNCHANGED <<isRunning, cronActive, stats, leadRows, envVars, nextLeft, listingsLeft, scoreVars, reqVars, stopVars, optVars, limVars, cbVars, bootVars, lockVars>>

\* An exception that no inner try handles escapes the body before the
\* source loop (lines 198-209), with the session row written or not.
BodyThrows(r) ==
  /\ runs[r].pc = "create"
  /\ \E opened \in {b \in BOOLEAN : b => dbPool} :
       sessions' = IF opened THEN [sessions EXCEPT ![r] = RunningSession]
                   ELSE sessions
  /\ runs' = [runs EXCEPT ![r].pc = "fail"]
  /\ UNCHANGED <<isRunning, cronActive, stats, leadRows, envVars, nextLeft, listingsLeft, scoreVars, reqVars, stopVars, optVars, limVars, cbVars, bootVars, lockVars>>

\* scrapePage over HTTP: rateLimiter.consume, makeRequest (all retries),
\* parseLeads and hasNextPage; a failure breaks the page loop.
FetchPage(r) ==
  LET u == runs[r]
      f == [u EXCEPT !.fetches = u.fetches + 1, !.slept = 0, !.fellBack = ApifyPage(u)]
  IN  \/ /\ runs' = [runs EXCEPT ![r] = EndCategory(f)]
         /\ UNCHANGED <<nextLeft, listingsLeft>>
      \/ \E entries \in Servable(PageEntries), hasNext \in BOOLEAN :
           LET leads == parseLeads(entries, SourceOf(u), CategoryOf(u))
               g == [f EXCEPT !.next = hasNext,
                              !.catRes.totalLeads = u.catRes.totalLeads + Len(leads),
                              !.catRes.pages = u.catRes.pages + 1,
                              !.okPages = u.okPages + 1]
           IN  /\ hasNext => nextLeft > 0
               /\ nextLeft' = IF hasNext THEN nextLeft - 1 ELSE nextLeft
               /\ listingsLeft' = listingsLeft - Len(entries)
               /\ runs' = [runs EXCEPT ![r] = WithLeads(g, leads)]

\* A scrapePage whose Apify failure fails the page.
FetchApifyPageNoFallback(r) ==
  LET u == runs[r]
      f == [u EXCEPT !.fetches = u.fetches + 1, !.slept = 0, !.fellBack = FALSE]
  IN  /\ runs' = [runs EXCEPT ![r] = EndCategory(f)]
      /\ UNCHANGED <<nextLeft, listingsLeft>>

\* scrapePage through Apify (paginasAmarillas): the dataset is the page.
\* When the Apify call throws, the catch at lines 418-420 logs a warning
\* and the HTTP path below runs for the same page: FetchPage on a page for
\* which ApifyPage holds, which notes that it fell back.
FetchApifyPage(r) ==
  LET u == runs[r]
      f == [u EXCEPT !.fetches = u.fetches + 1, !.slept = 0, !.fellBack = FALSE]
  IN  \E items \in Servable(ApifyItems) :
        LET leads == MapApify(items, CategoryOf(u), 1)
            g == [f EXCEPT !.next = (Len(items) >= ApifyPageLimit),
                           !.catRes.totalLeads = u.catRes.totalLeads + Len(leads),
                           !.catRes.pages = u.catRes.pages + 1,
                           !.okPages = u.okPages + 1]
        IN  /\ listingsLeft' = listingsLeft - Len(items)
            /\ nextLeft' = nextLeft
            /\ runs' = [runs EXCEPT ![r] = WithLeads(g, leads)]

\* scrapePage: lines 401-454.
ScrapePage(r) ==
  /\ runs[r].pc = "page"
  /\ \/ ApifyPage(runs[r]) /\ FetchApifyPage(r)
     \/ FetchPage(r)
  /\ UNCHANGED <<isRunning, cronActive, stats, sessions, leadRows, envVars, scoreVars, reqVars, stopVars, optVars, limVars, cbVars, bootVars, lockVars>>

\* The limiter's window (duration: 1 second) in units of rateLimitDelay.
WindowTicks == (LimiterDuration * 1000) \div rateLimitDelay

\* The limiter before its first consume.
FreshLimiter == [points |-> 0, age |-> 0, rested |-> RunIds]

\* rateLimiter.consume resolves while the window's points are not used
\* up, and rejects otherwise.
Consumable(points) == points < maxConcurrentRequests

\* rateLimitDelay elapses: every delay(config.rateLimitDelay) of the page
\* and category loops has returned, and the window opened by the first
\* consume expires after WindowTicks of them.
Tick ==
  /\ limiter' =
       IF limiter.points = 0 \/ limiter.age + 1 >= WindowTicks
       THEN FreshLimiter
       ELSE [limiter EXCEPT !.age = limiter.age + 1, !.rested = RunIds]
  /\ UNCHANGED <<isRunning, cronActive, stats, runs, sessions, leadRows, envVars, nextLeft,
                 listingsLeft, scoreVars, reqVars, stopVars, optVars, cbVars, bootVars, lockVars>>

\* scrapePage over HTTP with its limiter: lines 424-454 and the catch of
\* scrapeCategory, 387-395.  consume() comes first; when it rejects,
\* scrapePage rethrows and the page loop breaks.
ScrapePageLimited(r) ==
  LET u == runs[r]
  IN  /\ u.pc = "page"
      /\ r \in limiter.rested
      /\ IF Consumable(limiter.points)
         THEN /\ limiter' = [limiter EXCEPT !.points = limiter.points + 1,
                                            !.rested = limiter.rested \ {r}]
              /\ FetchPage(r)
         ELSE /\ limiter' = [limiter EXCEPT !.rested = limiter.rested \ {r}]
              /\ runs' = [runs EXCEPT ![r] = EndCategory(u)]
              /\ UNCHANGED <<nextLeft, listingsLeft>>
      /\ UNCHANGED <<isRunning, cronActive, stats, sessions, leadRows, envVars, scoreVars,
                     reqVars, stopVars, optVars, cbVars, bootVars, lockVars>>

\* The page a fixed dataset serves for the URL the run is at; a site
\* outside the dataset serves a page without listings.
ServedPage(u) ==
  LET url == [src |-> u.src, cat |-> u.cat, page |-> u.page]
  IN  IF url \in DOMAIN web THEN web[url] ELSE [entries |-> <<>>, next |-> FALSE]

\* scrapePage over HTTP when the sites serve the dataset: lines 424-454
\* with every request answered.
ScrapeServedPage(r) ==
  LET u     == runs[r]
      served == ServedPage(u)
      leads == parseLeads(served.entries, SourceOf(u), CategoryOf(u))
      g     == [u EXCEPT !.fetches = u.fetches + 1, !.slept = 0,
                         !.next = served.next,
                         !.catRes.totalLeads = u.catRes.totalLeads + Len(leads),
                         !.catRes.pages = u.catRes.pages + 1,
                         !.okPages = u.okPages + 1]
  IN  /\ u.pc = "page"
      /\ runs' = [runs EXCEPT ![r] = WithLeads(g, leads)]
      /\ UNCHANGED <<isRunning, cronActive, stats, sessions, leadRows, envVars, nextLeft,
                     listingsLeft, scoreVars, reqVars, stopVars, optVars, limVars, cbVars, bootVars, lockVars>>

\* The Apify category loop of scrapeSource (pymesOrgMx): lines 277-319.
ScrapeApifyCategory(r) ==
  LET u == runs[r]
  IN  /\ u.pc = "apify"
      /\ \/ /\ runs' = [runs EXCEPT ![r] = ApifyCategoryFailed(u)]
            /\ UNCHANGED listingsLeft
         \/ \E items \in Servable(ApifyItems) :
              LET leads == MapApify(items, CategoryOf(u), 1)
                  g == [u EXCEPT !.slept = 0,
                                 !.catRes = [ZeroCategory EXCEPT
                                               !.totalLeads = Len(leads), !.pages = 1]]
              IN  /\ listingsLeft' = listingsLeft - Len(items)
                  /\ runs' = [runs EXCEPT ![r] = WithLeads(g, leads)]
      /\ UNCHANGED <<isRunning, cronActive, stats, sessions, leadRows, envVars, nextLeft, scoreVars, reqVars, stopVars, optVars, limVars, cbVars, bootVars, lockVars>>

\* saveLead up to the answer of checkDuplicate: lines 726-733, 791-806.
\* A duplicate is tallied at once; without a pool the lead counts as new.
CheckDuplicate(r) ==
  LET u    == runs[r]
      lead == Head(u.leads)
  IN  /\ u.pc = "check"
      /\ \E ok \in QueryOutcomes :
           LET isDuplicate == dbPool /\ ok
                              /\ DuplicateRows(leadRows, lead.company_name, lead.phone) # {}
           IN  runs' = [runs EXCEPT ![r] =
                 IF isDuplicate
                 THEN AfterLead([u EXCEPT !.catRes.duplicates = u.catRes.duplicates + 1])
                 ELSE IF ~dbPool
                 THEN AfterLead([u EXCEPT !.catRes.newLeads = u.catRes.newLeads + 1])
                 ELSE [u EXCEPT !.pc = "insert"]]
      /\ UNCHANGED <<isRunning, cronActive, stats, sessions, leadRows, envVars, nextLeft, listingsLeft, scoreVars, reqVars, stopVars, optVars, limVars, cbVars, bootVars, lockVars>>

\* saveLead's insert: lines 735-789.  A rejected query makes saveLead
\* throw; the lead loop logs it and tallies nothing.
InsertLead(r) ==
  LET u    == runs[r]
      lead == Head(u.leads)
  IN  /\ u.pc = "insert"
      /\ \E ok \in QueryOutcomes :
           IF ok
           THEN /\ leadRows' = Append(leadRows, InsertedRow(leadRows, lead, SourceOf(u), r))
                /\ runs' = [runs EXCEPT ![r] =
                     AfterLead([u EXCEPT !.catRes.newLeads = u.catRes.newLeads + 1])]
           ELSE /\ leadRows' = leadRows
                /\ runs' = [runs EXCEPT ![r] = AfterLead([u EXCEPT !.threw = u.threw + 1])]
      /\ UNCHANGED <<isRunning, cronActive, stats, sessions, envVars, nextLeft, listingsLeft, scoreVars, reqVars, stopVars, optVars, limVars, cbVars, bootVars, lockVars>>

\* The lead loop of the second revision of the file (lines 1246-1250):
\* saveLead is awaited with no try of its own, so a rejected insert is
\* caught by the page loop's catch, which breaks (1254-1256).
InsertLeadUnguarded(r) ==
  LET u    == runs[r]
      lead == Head(u.leads)
  IN  /\ u.pc = "insert"
      /\ \E ok \in QueryOutcomes :
           IF ok
           THEN /\ leadRows' = Append(leadRows, InsertedRow(leadRows, lead, SourceOf(u), r))
                /\ runs' = [runs EXCEPT ![r] =
                     AfterLead([u EXCEPT !.catRes.newLeads = u.catRes.newLeads + 1])]
           ELSE /\ leadRows' = leadRows
                /\ runs' = [runs EXCEPT ![r] = EndCategory([u EXCEPT !.threw = u.threw + 1])]
      /\ UNCHANGED <<isRunning, cronActive, stats, sessions, envVars, nextLeft, listingsLeft,
                     scoreVars, reqVars, stopVars, optVars, limVars, cbVars, bootVars, lockVars>>

\* The source loop of the second revision at pymesOrgMx when the Apify
\* scraper exists (lines 1153-1156): scrapeWithApify calls
\* this.apifyScraper.run(cfg) (1290-1293), a method ApifyScraperService
\* does not have; the TypeError is caught by the source loop's catch
\* (1162-1165), which counts one error and records no entry for the source.
ScrapeWithApifySecond(r) ==
  LET u == runs[r]
  IN  /\ u.pc = "apify"
      /\ runs' = [runs EXCEPT ![r] =
                    EnterSource([u EXCEPT !.results.errors = u.results.errors + 1],
                                u.src + 1)]
      /\ UNCHANGED <<isRunning, cronActive, stats, sessions, leadRows, envVars, nextLeft,
                     listingsLeft, scoreVars, reqVars, stopVars, optVars, limVars, cbVars, bootVars, lockVars>>

\* A restart of an idle process: the constructor (lines 83-99) zeroes the
\* stats and initialize() awaits loadStats() (line 113).  The schedule is
\* set up again from the same configuration.
Restart(i) ==
  /\ i \in instances
  /\ ~isRunning[i]
  /\ \A r \in RunIds : Active(r) => runs[r].inst # i
  /\ \E ok \in QueryOutcomes :
       stats' = [stats EXCEPT ![i] = loadStats(sessions, ZeroStats, ok)]
  /\ boots' = [boots EXCEPT ![i] = 1 - boots[i]]
  /\ UNCHANGED <<isRunning, cronActive, runs, sessions, leadRows, envVars, nextLeft,
                 listingsLeft, scoreVars, reqVars, stopVars, optVars, limVars, cbVars,
                 lockVars>>

\* Lines 230-234: the session is closed as completed, the stats are bumped.
CloseCompleted(r) ==
  LET u == runs[r]
  IN  /\ u.pc = "close"
      /\ \E ok \in QueryOutcomes :
           sessions' = updateScrapingSession(sessions, r, "completed", u.results, FALSE, ok)
      /\ stats' = [stats EXCEPT ![u.inst] =
                     [totalSessions |-> @.totalSessions + 1,
                      totalLeads    |-> @.totalLeads + u.results.totalLeads]]
      /\ runs' = [runs EXCEPT ![r].pc = "cache"]
      /\ UNCHANGED <<isRunning, cronActive, leadRows, envVars, nextLeft, listingsLeft, scoreVars, reqVars, stopVars, optVars, limVars, cbVars, bootVars, lockVars>>

\* Lines 236-252 and 259-261: the summary is cached (a failure is caught),
\* the summary is returned and the finally block runs.
FinishRun(r) ==
  LET u == runs[r]
  IN  /\ u.pc = "cache"
      /\ runs' = [runs EXCEPT ![r] = Settled(u, "returned")]
      /\ isRunning' = Finally(isRunning, u.inst)
      /\ UNCHANGED <<cronActive, stats, sessions, leadRows, envVars, nextLeft, listingsLeft, scoreVars, reqVars, stopVars, optVars, limVars, cbVars, bootVars, lockVars>>

\* A cache write whose failure escapes to the outer catch block.
FinishRunCacheThrows(r) ==
  /\ runs[r].pc = "cache"
  /\ runs' = [runs EXCEPT ![r].pc = "fail"]
  /\ UNCHANGED <<isRunning, cronActive, stats, sessions, leadRows, envVars, nextLeft,
                 listingsLeft, scoreVars, reqVars, stopVars, optVars, limVars, cbVars,
                 bootVars, lockVars>>

\* Lines 236-252 when the write to Redis throws: the inner catch logs a
\* warning (250-252), the summary is returned and the finally block runs.
FinishRunUncached(r) ==
  LET u == runs[r]
  IN  /\ u.pc = "cache"
      /\ runs' = [runs EXCEPT ![r] = [Settled(u, "returned") EXCEPT !.cacheFailed = TRUE]]
      /\ isRunning' = Finally(isRunning, u.inst)
      /\ UNCHANGED <<cronActive, stats, sessions, leadRows, envVars, nextLeft, listingsLeft,
                     scoreVars, reqVars, stopVars, optVars, limVars, cbVars, bootVars,
                     lockVars>>

\* Lines 254-261: the catch block closes the session as failed and
\* rethrows; the finally block runs.
CloseFailed(r) ==
  LET u == runs[r]
  IN  /\ u.pc = "fail"
      /\ \E ok \in QueryOutcomes :
           sessions' = updateScrapingSession(sessions, r, "failed", ZeroResults, TRUE, ok)
      /\ runs' = [runs EXCEPT ![r] = Settled(u, "threw")]
      /\ isRunning' = Finally(isRunning, u.inst)
      /\ UNCHANGED <<cronActive, stats, leadRows, envVars, nextLeft, listingsLeft, scoreVars, reqVars, stopVars, optVars, limVars, cbVars, bootVars, lockVars>>

-----------------------------------------------------------------------------
(* makeRequest: one call per URL, its attempts and its backoff delays.     *)

Urls == {"u1", "u2", "u3"}

IdleRequest == [pc |-> "idle", retries |-> 0, attempts |-> 0, delays |-> <<>>]

\* A retry condition that allows one retry too many.
RetryAllowedInclusive(retries) == retries <= maxRetries

\* if (retries < config.maxRetries)
RetryAllowed(retries) == retries < maxRetries

\* this.delay(config.retryDelay * (retries + 1))
BackoffDelay(retries) == retryDelay * (retries + 1)

\* makeRequest(url, source) is called: retries = 0, axios.get is issued.
MakeRequest(u) ==
  /\ req[u].pc = "idle"
  /\ req' = [req EXCEPT ![u] = [IdleRequest EXCEPT !.pc = "attempt", !.attempts = 1]]
  /\ UNCHANGED <<isRunning, cronActive, stats, runs, sessions, leadRows, envVars,
                 nextLeft, listingsLeft, scoreVars, stopVars, optVars, limVars, cbVars, bootVars, lockVars>>

\* axios.get resolves: the response is returned.
AttemptSucceeds(u) ==
  /\ req[u].pc = "attempt"
  /\ req' = [req EXCEPT ![u].pc = "returned"]
  /\ UNCHANGED <<isRunning, cronActive, stats, runs, sessions, leadRows, envVars,
                 nextLeft, listingsLeft, scoreVars, stopVars, optVars, limVars, cbVars, bootVars, lockVars>>

\* axios.get rejects: the catch block waits for a retry or rethrows.
AttemptFails(u) ==
  LET q == req[u]
  IN  /\ q.pc = "attempt"
      /\ req' = [req EXCEPT ![u] =
                   IF RetryAllowed(q.retries)
                   THEN [q EXCEPT !.pc = "delay",
                                  !.delays = Append(q.delays, BackoffDelay(q.retries))]
                   ELSE [q EXCEPT !.pc = "threw"]]
      /\ UNCHANGED <<isRunning, cronActive, stats, runs, sessions, leadRows, envVars,
                     nextLeft, listingsLeft, scoreVars, stopVars, optVars, limVars, cbVars, bootVars, lockVars>>

\* The delay has elapsed: makeRequest(url, source, retries + 1).
RetryRequest(u) ==
  LET q == req[u]
  IN  /\ q.pc = "delay"
      /\ req' = [req EXCEPT ![u] = [q EXCEPT !.pc = "attempt", !.retries = q.retries + 1,
                                             !.attempts = q.attempts + 1]]
      /\ UNCHANGED <<isRunning, cronActive, stats, runs, sessions, leadRows, envVars,
                     nextLeft, listingsLeft, scoreVars, stopVars, optVars, limVars, cbVars, bootVars, lockVars>>

-----------------------------------------------------------------------------
(* The cache-backed revision of the service (unnamed/part_005, with        *)
(* database/redis.js): two sources, a URL cache and a duplicate cache in   *)
(* Redis, a per-source budget counter.  cb[w] is one such service with its *)
(* own store and cache; the worlds share the pages the sites serve (web).  *)

CachedSourceNames == <<"paginasAmarillas", "seccionAmarilla">>

CachedCategories(s) ==
  CASE s = "paginasAmarillas" -> <<"restaurantes", "servicios", "comercio", "construccion">>
    [] s = "seccionAmarilla"  -> <<"restaurantes", "servicios", "tiendas", "profesionales">>

\* rateLimit: 100, requests per hour, for both sources.
CachedRateLimit(s) == 100

Worlds == {"a", "b"}

\* buildSearchUrl(sourceConfig, category, page)
CachedUrls ==
  [src : 1..Len(CachedSourceNames), cat : 1..4, page : 1..maxPagesPerCategory]

EmptyPage == [entries |-> <<>>, next |-> FALSE]

\* A service after construction: nothing cached, nothing stored.
NewWorld ==
  [pc |-> "idle", outcome |-> "none", isRunning |-> FALSE, starts |-> 0,
   storageUp |-> TRUE, cacheUp |-> FALSE, site |-> "up", cats |-> 1,
   urls |-> {}, dups |-> {},
   budget |-> [s \in {CachedSourceNames[k] : k \in 1..Len(CachedSourceNames)} |-> 0],
   sent   |-> [s \in {CachedSourceNames[k] : k \in 1..Len(CachedSourceNames)} |-> 0],
   session |-> "none", src |-> 0, cat |-> 0, page |-> 0,
   hasMore |-> FALSE, next |-> FALSE, leads |-> <<>>,
   rows |-> <<>>, saved |-> <<>>, lost |-> {}, errors |-> 0,
   check |-> [hit |-> FALSE, queried |-> FALSE, answer |-> FALSE]]

CachedSourceOf(c) == CachedSourceNames[c.src]

CachedUrlOf(c) == [src |-> c.src, cat |-> c.cat, page |-> c.page]

\* parseLeads of this revision: the category is read from the listing.
parseLeadsCached(entries, source) == ParseEach(entries, source, "", 1)

\* KEYS.DUPLICATE_CHECK(company, phone): `duplicate:${company}:${phone}`
DuplicateKey(company, phone) == <<company, phone>>

\* SELECT id FROM scraper.leads WHERE company_name = $1 AND phone = $2
CachedDuplicateRows(rows, companyName, phone) ==
  {k \in 1..Len(rows) : SqlEq(rows[k].company_name, companyName)
                        /\ SqlEq(rows[k].phone, phone)}

\* INSERT INTO scraper.leads (...) VALUES (...)
CachedRow(lead, source) ==
  [company_name |-> lead.company_name, phone |-> lead.phone, source |-> source,
   address |-> lead.address, website |-> lead.website, category |-> lead.category,
   confidence_score |-> calculateConfidenceScore(lead)]

\* The head of scrapeCategory: page = 1, hasMorePages = true.
CachedEnterCategory(c, k) ==
  [c EXCEPT !.pc = "page", !.cat = k, !.page = 1, !.hasMore = TRUE, !.next = FALSE]

\* The source loop of startFullScraping; scrapeSource starts with the
\* budget check.
CachedEnterSource(c, k) ==
  IF k > Len(CachedSourceNames) THEN [c EXCEPT !.pc = "close", !.src = k]
  ELSE [c EXCEPT !.pc = "rate", !.src = k, !.cat = 0, !.page = 0]

\* scrapeCategory returned: the category loop of scrapeSource goes on.
CachedEndCategory(c) ==
  IF c.cat < c.cats THEN CachedEnterCategory(c, c.cat + 1)
  ELSE CachedEnterSource(c, c.src + 1)

\* hasMorePages = pageResults.hasNextPage; page++; the loop condition.
CachedEndPage(c) ==
  LET v == [c EXCEPT !.hasMore = c.next, !.page = c.page + 1]
  IN  IF LoopContinues(v.hasMore, v.page) THEN [v EXCEPT !.pc = "page"]
      ELSE CachedEndCategory(v)

CachedAfterLead(c) ==
  LET v == [c EXCEPT !.leads = Tail(c.leads)]
  IN  IF v.leads # <<>> THEN v ELSE CachedEndPage(v)

\* startFullScraping up to its first await.
CachedStart(w) ==
  LET c == cb[w]
  IN  /\ c.pc \in {"idle", "done"}
      /\ c.starts > 0
      /\ ~c.isRunning
      /\ cb' = [cb EXCEPT ![w] = [c EXCEPT !.pc = "create", !.outcome = "none",
                                           !.isRunning = TRUE, !.starts = c.starts - 1]]
      /\ UNCHANGED <<isRunning, cronActive, stats, runs, sessions, leadRows, envVars,
                     nextLeft, listingsLeft, scoreVars, reqVars, stopVars, optVars,
                     limVars, web, bootVars, lockVars>>

\* createScrapingSession: the INSERT; a rejected query is not caught here.
CachedCreateSession(w) ==
  LET c == cb[w]
  IN  /\ c.pc = "create"
      /\ cb' = [cb EXCEPT ![w] =
                  IF c.storageUp
                  THEN CachedEnterSource([c EXCEPT !.session = "running"], 1)
                  ELSE [c EXCEPT !.pc = "fail"]]
      /\ UNCHANGED <<isRunning, cronActive, stats, runs, sessions, leadRows, envVars,
                     nextLeft, listingsLeft, scoreVars, reqVars, stopVars, optVars,
                     limVars, web, bootVars, lockVars>>

\* redis.checkRateLimit(sourceName, sourceConfig.rateLimit, 3600) at the
\* head of scrapeSource: INCR and compare; always allowed without Redis.
\* A refusal throws, and the source loop counts one error.
CachedCheckRateLimit(w) ==
  LET c == cb[w]
      s == CachedSourceOf(c)
      current == c.budget[s] + 1
      d == [c EXCEPT !.budget[s] = current]
  IN  /\ c.pc = "rate"
      /\ cb' = [cb EXCEPT ![w] =
                  IF ~c.cacheUp THEN CachedEnterCategory(c, 1)
                  ELSE IF current <= CachedRateLimit(s) THEN CachedEnterCategory(d, 1)
                  ELSE CachedEnterSource([d EXCEPT !.errors = d.errors + 1], c.src + 1)]
      /\ UNCHANGED <<isRunning, cronActive, stats, runs, sessions, leadRows, envVars,
                     nextLeft, listingsLeft, scoreVars, reqVars, stopVars, optVars,
                     limVars, web, bootVars, lockVars>>

\* Requests makeRequest issues for one page: one when the site answers
\* at once ("up"); every retry when it answers late ("slow") or not at
\* all ("down").
Attempts(site) == IF site = "up" THEN {1} ELSE {maxRetries + 1}

\* scrapePage: a URL found in the cache yields an empty last page;
\* otherwise the page is requested, parsed and marked as scraped.  When
\* the last retry fails too, scrapePage throws and the page loop breaks.
CachedScrapePage(w) ==
  LET c   == cb[w]
      s   == CachedSourceOf(c)
      url == CachedUrlOf(c)
  IN  /\ c.pc = "page"
      /\ IF c.cacheUp /\ url \in c.urls
         THEN cb' = [cb EXCEPT ![w] = CachedEndPage([c EXCEPT !.next = FALSE])]
         ELSE \E n \in Attempts(c.site) :
                LET d     == [c EXCEPT !.sent[s] = c.sent[s] + n]
                    leads == parseLeadsCached(web[url].entries, s)
                    g     == [d EXCEPT !.next = web[url].next, !.leads = leads,
                                       !.urls = IF c.cacheUp THEN c.urls \cup {url}
                                                ELSE c.urls]
                    ok    == c.site # "down"
                IN  /\ ok \/ ~RetryAllowed(n - 1)
                    /\ cb' = [cb EXCEPT ![w] =
                                IF ~ok THEN CachedEndCategory(d)
                                ELSE IF leads # <<>> THEN [g EXCEPT !.pc = "save"]
                                ELSE CachedEndPage(g)]
      /\ UNCHANGED <<isRunning, cronActive, stats, runs, sessions, leadRows, envVars,
                     nextLeft, listingsLeft, scoreVars, reqVars, stopVars, optVars,
                     limVars, web, bootVars, lockVars>>

\* checkDuplicate: redis.checkDuplicate first (exists; false without
\* Redis), and only when it says no, the query on the store.
checkDuplicateCached(c, companyName, phone) ==
  IF c.cacheUp /\ DuplicateKey(companyName, phone) \in c.dups
  THEN [hit |-> TRUE, queried |-> FALSE, answer |-> TRUE]
  ELSE [hit |-> FALSE, queried |-> TRUE,
        answer |-> CachedDuplicateRows(c.rows, companyName, phone) # {}]

CachedDuplicateResultMarks(c, key) ==
  [c EXCEPT !.dups = c.dups \cup {key},
            !.saved = Append(c.saved, [key |-> key, isNew |-> FALSE])]

\* if (isDuplicate) return { isNew: false, reason: 'database_duplicate' }:
\* the early return of saveLead, before the INSERT and markAsDuplicate.
CachedDuplicateResult(c, key) ==
  [c EXCEPT !.saved = Append(c.saved, [key |-> key, isNew |-> FALSE])]

\* saveLead: checkDuplicate asks the cache, then the store; a new lead is
\* inserted and its key is marked in the cache.
CachedSaveLead(w) ==
  LET c0   == cb[w]
      lead == Head(c0.leads)
      key  == DuplicateKey(lead.company_name, lead.phone)
      res  == checkDuplicateCached(c0, lead.company_name, lead.phone)
      c    == [c0 EXCEPT !.check = res]
      isDuplicate == res.answer
  IN  /\ c0.pc = "save"
      /\ cb' = [cb EXCEPT ![w] =
                  IF isDuplicate
                  THEN CachedAfterLead(CachedDuplicateResult(c, key))
                  ELSE CachedAfterLead(
                         [c EXCEPT !.rows = Append(c.rows, CachedRow(lead, CachedSourceOf(c))),
                                   !.dups = IF c.cacheUp THEN c.dups \cup {key} ELSE c.dups,
                                   !.saved = Append(c.saved, [key |-> key, isNew |-> TRUE])])]
      /\ UNCHANGED <<isRunning, cronActive, stats, runs, sessions, leadRows, envVars,
                     nextLeft, listingsLeft, scoreVars, reqVars, stopVars, optVars,
                     limVars, web, bootVars, lockVars>>

\* A saveLead that marks the lead's key although its query was rejected.
CachedSaveLeadRejectedMarks(w) ==
  LET c0   == cb[w]
      lead == Head(c0.leads)
      key  == DuplicateKey(lead.company_name, lead.phone)
      res  == checkDuplicateCached(c0, lead.company_name, lead.phone)
  IN  /\ c0.pc = "save"
      /\ ~res.hit
      /\ cb' = [cb EXCEPT ![w] =
                  CachedAfterLead([c0 EXCEPT !.lost = c0.lost \cup {key},
                                             !.dups = c0.dups \cup {key}])]
      /\ UNCHANGED <<isRunning, cronActive, stats, runs, sessions, leadRows, envVars,
                     nextLeft, listingsLeft, scoreVars, reqVars, stopVars, optVars,
                     limVars, web, bootVars, lockVars>>

\* saveLead when the store rejects its query, the SELECT of checkDuplicate
\* after a cache miss or the INSERT: saveLead logs and rethrows (lines
\* 597-603) before markAsDuplicate is reached, and the lead loop of
\* scrapeCategory logs the error and goes on (286-288).
CachedSaveLeadRejected(w) ==
  LET c0   == cb[w]
      lead == Head(c0.leads)
      key  == DuplicateKey(lead.company_name, lead.phone)
      res  == checkDuplicateCached(c0, lead.company_name, lead.phone)
  IN  /\ c0.pc = "save"
      /\ ~res.hit
      /\ cb' = [cb EXCEPT ![w] =
                  CachedAfterLead([c0 EXCEPT !.lost = c0.lost \cup {key}])]
      /\ UNCHANGED <<isRunning, cronActive, stats, runs, sessions, leadRows, envVars,
                     nextLeft, listingsLeft, scoreVars, reqVars, stopVars, optVars,
                     limVars, web, bootVars, lockVars>>

\* updateScrapingSession(sessionId, 'completed', results), the summary is
\* cached and returned; the finally block runs.  A rejected UPDATE throws
\* into the catch block.
CachedCloseCompleted(w) ==
  LET c == cb[w]
  IN  /\ c.pc = "close"
      /\ cb' = [cb EXCEPT ![w] =
                  IF c.storageUp
                  THEN [c EXCEPT !.pc = "done", !.outcome = "returned",
                                 !.session = "completed", !.isRunning = FALSE]
                  ELSE [c EXCEPT !.pc = "fail"]]
      /\ UNCHANGED <<isRunning, cronActive, stats, runs, sessions, leadRows, envVars,
                     nextLeft, listingsLeft, scoreVars, reqVars, stopVars, optVars,
                     limVars, web, bootVars, lockVars>>

\* The catch block: updateScrapingSession(sessionId, 'failed', ...), which
\* throws in its turn when the UPDATE is rejected; the finally block runs
\* and the call rejects.
CachedCloseFailed(w) ==
  LET c == cb[w]
  IN  /\ c.pc = "fail"
      /\ cb' = [cb EXCEPT ![w] =
                  [c EXCEPT !.pc = "done", !.outcome = "threw", !.isRunning = FALSE,
                            !.session = IF c.storageUp /\ c.session # "none"
                                        THEN "failed" ELSE c.session]]
      /\ UNCHANGED <<isRunning, cronActive, stats, runs, sessions, leadRows, envVars,
                     nextLeft, listingsLeft, scoreVars, reqVars, stopVars, optVars,
                     limVars, web, bootVars, lockVars>>

-----------------------------------------------------------------------------
(* Specifications.                                                         *)


\* The state after construction and initialize(): nothing runs, the store
\* is empty, the cron job is started when config.autoStart is set.
InitWithCategories(insts, starts, nexts, listings, cats) ==
  /\ instances = insts
  /\ maxCats = cats
  /\ maxRuns = starts
  /\ isRunning = [i \in Instances |-> FALSE]
  /\ cronActive \in [Instances -> BOOLEAN]
  /\ \A i \in Instances \ insts : ~cronActive[i]
  /\ stats = [i \in Instances |-> ZeroStats]
  /\ runs = [r \in RunIds |-> IdleRun]
  /\ sessions = [r \in RunIds |-> NoSession]
  /\ leadRows = <<>>
  /\ nextLeft = nexts
  /\ listingsLeft = listings
  /\ req = [u \in Urls |-> IdleRequest]
  /\ stopAt = [r \in RunIds |-> [src |-> 0, cat |-> 0, pages |-> 0]]
  /\ options = [r \in RunIds |-> [sources |-> {}, categories |-> {}]]
  /\ limiter = [points |-> 0, age |-> 0, rested |-> RunIds]
  /\ boots = [i \in Instances |-> 0]

\* No caller of acquireLock, the key absent.
NoLocking == lock = [connected |-> TRUE, key |-> NULL, ttl |-> 0, callers |-> <<>>]

InitService(insts, starts, nexts, listings) ==
  /\ InitWithCategories(insts, starts, nexts, listings, MaxCategories)
  /\ NoLocking

\* No lead is being scored outside SpecScore.
NoScoring == cands = <<>> /\ scores = <<>>

\* The cache-backed revision is not running.
NoCachedRun ==
  /\ cb = [w \in Worlds |-> NewWorld]
  /\ web = [u \in CachedUrls |-> EmptyPage]

\* Spec: one scraper process; API calls, cron ticks and stop() interleave
\* with two runs, storage may be absent or fail, and a run may throw.
Init ==
  /\ InitService({"i1"}, 2, MaxNextSignals, MaxListings)
  /\ dbPool \in BOOLEAN
  /\ dbFaulty = dbPool
  /\ useApify = FALSE
  /\ NoScoring
  /\ NoCachedRun

Next ==
  \/ \E r \in RunIds, i \in Instances : StartFullScraping(r, i)
  \/ \E i \in Instances : StartRejected(i)
  \/ \E r \in RunIds, i \in Instances : CronTick(r, i)
  \/ \E i \in Instances : Stop(i)
  \/ \E r \in RunIds : CreateScrapingSession(r)
  \/ \E r \in RunIds : BodyThrows(r)
  \/ \E r \in RunIds : ScrapePage(r)
  \/ \E r \in RunIds : CheckDuplicate(r)
  \/ \E r \in RunIds : InsertLead(r)
  \/ \E r \in RunIds : CloseCompleted(r)
  \/ \E r \in RunIds : FinishRun(r)
  \/ \E r \in RunIds : CloseFailed(r)

Spec == Init /\ [][Next]_vars

\* FairSpec: the lifecycle of one run on a process whose sites serve
\* nothing, with stop(), cron ticks, rejected starts, storage faults and a
\* throwing body; the run is scheduled until its promise settles, since
\* every await of a run resolves or rejects in finite time (requests time
\* out, delays elapse).
InitFair ==
  /\ InitService({"i1"}, 1, 0, 0)
  /\ dbPool \in BOOLEAN
  /\ dbFaulty = dbPool
  /\ useApify = FALSE
  /\ NoScoring
  /\ NoCachedRun

NextFair ==
  \/ \E r \in RunIds, i \in Instances : StartFullScraping(r, i)
  \/ \E i \in Instances : StartRejected(i)
  \/ \E r \in RunIds, i \in Instances : CronTick(r, i)
  \/ \E i \in Instances : Stop(i)
  \/ \E r \in RunIds : CreateScrapingSession(r)
  \/ \E r \in RunIds : BodyThrows(r)
  \/ \E r \in RunIds : ScrapePage(r)
  \/ \E r \in RunIds : CloseCompleted(r)
  \/ \E r \in RunIds : FinishRun(r)
  \/ \E r \in RunIds : CloseFailed(r)

RunStep(r) ==
  \/ CreateScrapingSession(r)
  \/ ScrapePage(r)
  \/ CheckDuplicate(r)
  \/ InsertLead(r)
  \/ CloseCompleted(r)
  \/ FinishRun(r)
  \/ CloseFailed(r)

FairSpec == InitFair /\ [][NextFair]_vars /\ \A r \in RunIds : WF_vars(RunStep(r))

\* SpecPages: one process, one run, storage healthy; the sites serve
\* pages without listings and as many 'next page' indicators as the page
\* cap can consume.
InitPages ==
  /\ InitService({"i1"}, 1, maxPagesPerCategory, 0)
  /\ \A i \in Instances : ~cronActive[i]
  /\ dbPool = TRUE
  /\ dbFaulty = FALSE
  /\ useApify = FALSE
  /\ NoScoring
  /\ NoCachedRun

NextPages ==
  \/ \E r \in RunIds, i \in Instances : StartFullScraping(r, i)
  \/ \E r \in RunIds : CreateScrapingSession(r)
  \/ \E r \in RunIds : ScrapePage(r)
  \/ \E r \in RunIds : CloseCompleted(r)
  \/ \E r \in RunIds : FinishRun(r)

SpecPages == InitPages /\ [][NextPages]_vars

\* SpecSave: one process, one run at a time, storage healthy, with or
\* without the Apify backend; the sites may serve the same listing twice.
InitSave ==
  /\ InitService({"i1"}, 1, MaxNextSignals, MaxListings + 1)
  /\ \A i \in Instances : ~cronActive[i]
  /\ dbPool = TRUE
  /\ dbFaulty = FALSE
  /\ useApify \in BOOLEAN
  /\ NoScoring
  /\ NoCachedRun

NextSave ==
  \/ \E r \in RunIds, i \in Instances : StartFullScraping(r, i)
  \/ \E r \in RunIds : CreateScrapingSession(r)
  \/ \E r \in RunIds : ScrapePage(r)
  \/ \E r \in RunIds : ScrapeApifyCategory(r)
  \/ \E r \in RunIds : CheckDuplicate(r)
  \/ \E r \in RunIds : InsertLead(r)
  \/ \E r \in RunIds : CloseCompleted(r)
  \/ \E r \in RunIds : FinishRun(r)

SpecSave == InitSave /\ [][NextSave]_vars

\* SpecScaled: two scraper processes side by side on one store, one run
\* each, storage healthy, stop() never called.
InitScaled ==
  /\ InitService({"i1", "i2"}, 2, 0, MaxListings + 1)
  /\ \A i \in Instances : ~cronActive[i]
  /\ dbPool = TRUE
  /\ dbFaulty = FALSE
  /\ useApify = FALSE
  /\ NoScoring
  /\ NoCachedRun

NextScaled ==
  \/ \E r \in RunIds, i \in Instances : StartFullScraping(r, i)
  \/ \E r \in RunIds : CreateScrapingSession(r)
  \/ \E r \in RunIds : ScrapePage(r)
  \/ \E r \in RunIds : CheckDuplicate(r)
  \/ \E r \in RunIds : InsertLead(r)
  \/ \E r \in RunIds : CloseCompleted(r)
  \/ \E r \in RunIds : FinishRun(r)

SpecScaled == InitScaled /\ [][NextScaled]_vars

\* SpecScore: calculateConfidenceScore applied to two candidate leads drawn
\* from every combination of present and absent optional fields.
OptionalFields == {"phone", "email", "website", "address", "category"}

Absent(f) == IF f = "address" THEN "" ELSE NULL

Present(f) ==
  CASE f = "phone"    -> "5512345678"
    [] f = "email"    -> "info@acme.mx"
    [] f = "website"  -> "http://acme.mx"
    [] f = "address"  -> "Calle 1"
    [] f = "category" -> "restaurantes"

LeadWith(P) ==
  [f \in OptionalFields \cup {"company_name"} |->
     IF f = "company_name" THEN "Acme SA"
     ELSE IF f \in P THEN Present(f) ELSE Absent(f)]

CandidateLeads == {LeadWith(P) : P \in SUBSET OptionalFields}

InitScore ==
  /\ InitService({}, 0, 0, 0)
  /\ dbPool = FALSE
  /\ dbFaulty = FALSE
  /\ useApify = FALSE
  /\ cands \in [{"a", "b"} -> CandidateLeads]
  /\ scores = [x \in {"a", "b"} |-> -1]
  /\ NoCachedRun

ScoreLeads ==
  /\ DOMAIN scores # {}
  /\ \A x \in DOMAIN scores : scores[x] < 0
  /\ scores' = [x \in DOMAIN cands |-> calculateConfidenceScore(cands[x])]
  /\ UNCHANGED <<isRunning, cronActive, stats, runs, sessions, leadRows, envVars,
                 nextLeft, listingsLeft, cands, reqVars, stopVars, optVars, limVars, cbVars, bootVars, lockVars>>

SpecScore == InitScore /\ [][ScoreLeads]_vars

\* SpecCron: one process whose runs are started by the scheduler alone,
\* until stop() destroys the cron job; the sites serve nothing.
InitCron ==
  /\ InitService({"i1"}, 2, 0, 0)
  /\ cronActive["i1"]
  /\ dbPool \in BOOLEAN
  /\ dbFaulty = FALSE
  /\ useApify = FALSE
  /\ NoScoring
  /\ NoCachedRun

NextCron ==
  \/ \E r \in RunIds, i \in Instances : CronTick(r, i)
  \/ \E i \in Instances : Stop(i)
  \/ \E r \in RunIds : CreateScrapingSession(r)
  \/ \E r \in RunIds : ScrapePage(r)
  \/ \E r \in RunIds : CloseCompleted(r)
  \/ \E r \in RunIds : FinishRun(r)

SpecCron == InitCron /\ [][NextCron]_vars

\* SpecStop: one process, one run, storage healthy; stop() may be called
\* at any point of the run.
InitStop ==
  /\ InitService({"i1"}, 1, MaxNextSignals, MaxListings)
  /\ \A i \in Instances : ~cronActive[i]
  /\ dbPool = TRUE
  /\ dbFaulty = FALSE
  /\ useApify = FALSE
  /\ NoScoring
  /\ NoCachedRun

NextStop ==
  \/ \E r \in RunIds, i \in Instances : StartFullScraping(r, i)
  \/ \E i \in Instances : StopObserved(i)
  \/ \E r \in RunIds : CreateScrapingSession(r)
  \/ \E r \in RunIds : ScrapePage(r)
  \/ \E r \in RunIds : CheckDuplicate(r)
  \/ \E r \in RunIds : InsertLead(r)
  \/ \E r \in RunIds : CloseCompleted(r)
  \/ \E r \in RunIds : FinishRun(r)

SpecStop == InitStop /\ [][NextStop]_vars

\* SpecOptions: one process, one run started through a route that names
\* a source and a category; storage healthy.
InitOptions ==
  /\ InitService({"i1"}, 1, MaxNextSignals, MaxListings)
  /\ \A i \in Instances : ~cronActive[i]
  /\ dbPool = TRUE
  /\ dbFaulty = FALSE
  /\ useApify = FALSE
  /\ NoScoring
  /\ NoCachedRun

NextOptions ==
  \/ \E r \in RunIds, i \in Instances, opts \in RouteOptions : StartWithOptions(r, i, opts)
  \/ \E r \in RunIds : CreateScrapingSession(r)
  \/ \E r \in RunIds : ScrapePage(r)
  \/ \E r \in RunIds : CheckDuplicate(r)
  \/ \E r \in RunIds : InsertLead(r)
  \/ \E r \in RunIds : CloseCompleted(r)
  \/ \E r \in RunIds : FinishRun(r)

SpecOptions == InitOptions /\ [][NextOptions]_vars

\* SpecLimiter: one process in which stop() lets a second run start
\* beside the first; both fetch through the one rateLimiter.
InitLimiter ==
  /\ InitService({"i1"}, 2, 0, 0)
  /\ \A i \in Instances : ~cronActive[i]
  /\ dbPool = TRUE
  /\ dbFaulty = FALSE
  /\ useApify = FALSE
  /\ NoScoring
  /\ NoCachedRun

NextLimiter ==
  \/ \E r \in RunIds, i \in Instances : StartFullScraping(r, i)
  \/ \E i \in Instances : Stop(i)
  \/ \E r \in RunIds : CreateScrapingSession(r)
  \/ \E r \in RunIds : ScrapePageLimited(r)
  \/ Tick
  \/ \E r \in RunIds : CloseCompleted(r)
  \/ \E r \in RunIds : FinishRun(r)

SpecLimiter == InitLimiter /\ [][NextLimiter]_vars

\* The first page of the first category of each source.
FirstPages == {u \in CachedUrls : u.cat = 1 /\ u.page = 1}

\* Sites with two pages in the first category of each source, each page
\* with no listing or with one.
FewWebs ==
  LET few == {u \in CachedUrls : u.cat = 1 /\ u.page <= 2}
  IN  {[u \in CachedUrls |->
          IF u \in few THEN [entries |-> f[u], next |-> u.page < 2] ELSE EmptyPage] :
       f \in [few -> {<<>>} \cup {<<e>> : e \in PageEntries}]}

\* SpecCached: the same run in two worlds with the same sites and the same
\* (empty) store: world a without Redis, world b with or without it, its
\* URL cache empty or holding first pages scraped within the last week.
\* Storage answers in both worlds or in neither.
InitCached ==
  /\ InitService({}, 0, 0, 0)
  /\ dbPool = FALSE
  /\ dbFaulty = FALSE
  /\ useApify = FALSE
  /\ NoScoring
  /\ web \in FewWebs
  /\ \E up \in BOOLEAN, cache \in BOOLEAN, marked \in SUBSET FirstPages :
       /\ cache \/ marked = {}
       /\ cb = [w \in Worlds |->
                  IF w = "a" THEN [NewWorld EXCEPT !.starts = 1, !.storageUp = up]
                  ELSE [NewWorld EXCEPT !.starts = 1, !.storageUp = up,
                                        !.cacheUp = cache, !.urls = marked]]

NextCached ==
  \/ \E w \in Worlds : (\A v \in Worlds : cb[v].pc \in {"idle", "done"}) /\ CachedStart(w)
  \/ \E w \in Worlds : CachedCreateSession(w)
  \/ \E w \in Worlds : CachedCheckRateLimit(w)
  \/ \E w \in Worlds : CachedScrapePage(w)
  \/ \E w \in Worlds : CachedSaveLead(w)
  \/ \E w \in Worlds : CachedCloseCompleted(w)
  \/ \E w \in Worlds : CachedCloseFailed(w)

SpecCached == InitCached /\ [][NextCached]_vars

\* SpecCachedFaults: two runs of one cache-backed service, one after the
\* other, with or without Redis; the store may reject the query of a
\* saveLead call.
InitCachedFaults ==
  /\ InitService({}, 0, 0, 0)
  /\ dbPool = FALSE
  /\ dbFaulty = FALSE
  /\ useApify = FALSE
  /\ NoScoring
  /\ web \in FewWebs
  /\ \E cache \in BOOLEAN :
       cb = [w \in Worlds |->
               IF w = "a" THEN [NewWorld EXCEPT !.starts = 2, !.cacheUp = cache]
               ELSE NewWorld]

NextCachedFaults ==
  \/ \E w \in Worlds : CachedStart(w)
  \/ \E w \in Worlds : CachedCreateSession(w)
  \/ \E w \in Worlds : CachedCheckRateLimit(w)
  \/ \E w \in Worlds : CachedScrapePage(w)
  \/ \E w \in Worlds : CachedSaveLead(w)
  \/ \E w \in Worlds : CachedSaveLeadRejected(w)
  \/ \E w \in Worlds : CachedCloseCompleted(w)

SpecCachedFaults == InitCachedFaults /\ [][NextCachedFaults]_vars

-----------------------------------------------------------------------------
(* Distributed locking (database/redis.js, acquireLock).                   *)

\* Number of acquireLock calls on one resource that the model lets overlap.
MaxCallers == 3

\* Lifetime of the lock key, in clock ticks of the Redis server (the PX
\* argument, ttl * 1000 ms, counted down by LockTick).
TtlTicks == 2

\* Default of the retries parameter.
retries == 3

\* const value = `${Date.now()}-${Math.random()}`: one token per call; two
\* calls are taken never to draw the same token.
LockValue(k) == ToString(k)

\* A call of acquireLock that has not been made yet.  i is the loop index,
\* tries counts the SET commands issued, waited the milliseconds spent in
\* setTimeout, live is TRUE from the moment the
\* call returns a lock until release() is called or the key expires, late
\* records a release() that found another value under the key, refused a
\* call that returned on line 487.
NewCall == [pc |-> "idle", i |-> 0, tries |-> 0, waited |-> 0, live |-> FALSE,
            late |-> FALSE, refused |-> FALSE]

Callers == 1..Len(lock.callers)

\* A SET that overwrites whatever the key holds.
SetPx(l, v) ==
  [ok |-> TRUE, l |-> [l EXCEPT !.key = v, !.ttl = TtlTicks]]

\* redis.set(key, value, 'PX', ttl * 1000, 'NX'): stores the value and
\* answers 'OK' only when the key is absent.
SetNxPx(l, v) ==
  IF l.key = NULL
    THEN [ok |-> TRUE, l |-> [l EXCEPT !.key = v, !.ttl = TtlTicks]]
    ELSE [ok |-> FALSE, l |-> l]

\* A release that deletes the key whatever it holds.
releaseUnchecked(l, v) ==
  [l EXCEPT !.key = NULL, !.ttl = 0]

\* The Lua script of release(): del only if get(key) is the caller's value.
release(l, v) ==
  IF l.key = v THEN [l EXCEPT !.key = NULL, !.ttl = 0] ELSE l

\* The end of a loop iteration that did not return: i++ and the loop test;
\* after the loop, return null.
NextAttempt(c) ==
  [c EXCEPT !.i = c.i + 1, !.pc = IF c.i + 1 < retries THEN "set" ELSE "null"]

\* acquireLock is called: null at once without a connection (487), else
\* the loop is entered.
AcquireLock(k) ==
  LET c == lock.callers[k] IN
  /\ c.pc = "idle"
  /\ lock' = [lock EXCEPT !.callers[k] =
                IF ~lock.connected THEN [c EXCEPT !.pc = "null", !.refused = TRUE]
                ELSE IF 0 < retries THEN [c EXCEPT !.pc = "set"]
                ELSE [c EXCEPT !.pc = "null"]]
  /\ UNCHANGED <<isRunning, cronActive, stats, runs, sessions, leadRows, envVars, nextLeft, listingsLeft, scoreVars, reqVars, stopVars, optVars, limVars, cbVars, bootVars>>

\* Lines 494-512: the SET command is answered; on 'OK' the lock object is
\* returned, otherwise the call waits 100 * (i + 1) ms.
TrySet(k) ==
  LET c == lock.callers[k]
      s == SetNxPx(lock, LockValue(k))
  IN  /\ c.pc = "set"
      /\ lock' = [s.l EXCEPT !.callers[k] =
                    IF s.ok THEN [c EXCEPT !.pc = "held", !.tries = c.tries + 1, !.live = TRUE]
                    ELSE [c EXCEPT !.pc = "wait", !.tries = c.tries + 1]]
      /\ UNCHANGED <<isRunning, cronActive, stats, runs, sessions, leadRows, envVars, nextLeft, listingsLeft, scoreVars, reqVars, stopVars, optVars, limVars, cbVars, bootVars>>

\* Lines 514-516: the SET command rejects, before or after the server
\* carried it out; the catch block logs and the loop goes on without
\* waiting.
SetThrows(k) ==
  LET c == lock.callers[k] IN
  /\ c.pc = "set"
  /\ \E applied \in BOOLEAN :
       lock' = [(IF applied THEN SetNxPx(lock, LockValue(k)).l ELSE lock)
                  EXCEPT !.callers[k] = NextAttempt([c EXCEPT !.tries = c.tries + 1])]
  /\ UNCHANGED <<isRunning, cronActive, stats, runs, sessions, leadRows, envVars, nextLeft, listingsLeft, scoreVars, reqVars, stopVars, optVars, limVars, cbVars, bootVars>>

\* Line 512 and the loop header: the timer fires.
WaitDone(k) ==
  LET c == lock.callers[k] IN
  /\ c.pc = "wait"
  /\ lock' = [lock EXCEPT !.callers[k] =
                NextAttempt([c EXCEPT !.waited = c.waited + 100 * (c.i + 1)])]
  /\ UNCHANGED <<isRunning, cronActive, stats, runs, sessions, leadRows, envVars, nextLeft, listingsLeft, scoreVars, reqVars, stopVars, optVars, limVars, cbVars, bootVars>>

\* Lines 499-508: the holder calls release() of the object it was given.
Release(k) ==
  LET c == lock.callers[k] IN
  /\ c.pc = "held"
  /\ lock' = [release(lock, LockValue(k)) EXCEPT !.callers[k] =
                [c EXCEPT !.pc = "released", !.live = FALSE,
                          !.late = lock.key # LockValue(k)]]
  /\ UNCHANGED <<isRunning, cronActive, stats, runs, sessions, leadRows, envVars, nextLeft, listingsLeft, scoreVars, reqVars, stopVars, optVars, limVars, cbVars, bootVars>>

\* Time passes on the Redis server: the key loses one tick of its lifetime
\* and is removed when none is left.
LockTick ==
  /\ lock.key # NULL
  /\ lock' = IF lock.ttl > 1 THEN [lock EXCEPT !.ttl = lock.ttl - 1]
             ELSE [lock EXCEPT !.key = NULL, !.ttl = 0,
                               !.callers = [k \in Callers |->
                                  IF LockValue(k) = lock.key
                                    THEN [lock.callers[k] EXCEPT !.live = FALSE]
                                    ELSE lock.callers[k]]]
  /\ UNCHANGED <<isRunning, cronActive, stats, runs, sessions, leadRows, envVars, nextLeft, listingsLeft, scoreVars, reqVars, stopVars, optVars, limVars, cbVars, bootVars>>

\* The 'ready', 'error', 'close' and 'end' handlers set isConnected.
ConnectionEvent ==
  /\ lock' = [lock EXCEPT !.connected = ~lock.connected]
  /\ UNCHANGED <<isRunning, cronActive, stats, runs, sessions, leadRows, envVars, nextLeft, listingsLeft, scoreVars, reqVars, stopVars, optVars, limVars, cbVars, bootVars>>

\* SpecLock: three calls of acquireLock for one resource, from any
\* processes, against one Redis server whose connection comes and goes.
InitLock ==
  /\ InitWithCategories({}, 0, 0, 0, MaxCategories)
  /\ dbPool = FALSE
  /\ dbFaulty = FALSE
  /\ useApify = FALSE
  /\ NoScoring
  /\ NoCachedRun
  /\ \E up \in BOOLEAN :
       lock = [connected |-> up, key |-> NULL, ttl |-> 0,
               callers |-> [k \in 1..MaxCallers |-> NewCall]]

NextLock ==
  \/ \E k \in Callers : AcquireLock(k)
  \/ \E k \in Callers : TrySet(k)
  \/ \E k \in Callers : SetThrows(k)
  \/ \E k \in Callers : WaitDone(k)
  \/ \E k \in Callers : Release(k)
  \/ LockTick
  \/ ConnectionEvent

SpecLock == InitLock /\ [][NextLock]_vars

\* SpecBudget: one run over all four categories of both sources; every
\* page links to a next one and lists nothing, and the sites answer at
\* the last retry or not at all.
InitBudget ==
  /\ InitService({}, 0, 0, 0)
  /\ dbPool = FALSE
  /\ dbFaulty = FALSE
  /\ useApify = FALSE
  /\ NoScoring
  /\ web = [u \in CachedUrls |-> [entries |-> <<>>, next |-> TRUE]]
  /\ \E up \in BOOLEAN, cache \in BOOLEAN, site \in {"slow", "down"} :
       cb = [w \in Worlds |->
               IF w = "a"
               THEN [NewWorld EXCEPT !.starts = 1, !.storageUp = up, !.cacheUp = cache,
                                     !.site = site,
                                     !.cats = Len(CachedCategories("paginasAmarillas"))]
               ELSE NewWorld]

NextBudget ==
  \/ \E w \in Worlds : CachedStart(w)
  \/ \E w \in Worlds : CachedCreateSession(w)
  \/ \E w \in Worlds : CachedCheckRateLimit(w)
  \/ \E w \in Worlds : CachedScrapePage(w)
  \/ \E w \in Worlds : CachedCloseCompleted(w)
  \/ \E w \in Worlds : CachedCloseFailed(w)

SpecBudget == InitBudget /\ [][NextBudget]_vars

\* Listings of distinct businesses, of one business under two spellings
\* of its phone, and of a business without a phone.
ExampleEntries ==
  { Entry("  Acme   SA ", "55-1234-5678", " Calle  1 ", "http://acme.mx"),
    Entry("  Acme   SA ", "Tel. 55 1234 5678", "", NULL),
    Entry("  Acme   SA ", "", " Calle  1 ", NULL),
    Entry("Acme SA", "55-8765-4321", "", NULL),
    Entry("Beta SA", "55-1234-5678", "", NULL),
    Entry("Beta SA", "55-8765-4321", "", NULL) }

\* A listing entry without a name.
NamelessEntry == Entry("", "55-1234-5678", "", NULL)

\* The first category of the first source: page 1 with three entries and
\* a next link, page 2 with one entry, one nameless entry and no link.
DatasetWebs(E) ==
  {[u \in CachedUrls |->
      IF u.src = 1 /\ u.cat = 1 /\ u.page = 1 THEN [entries |-> p1, next |-> TRUE]
      ELSE IF u.src = 1 /\ u.cat = 1 /\ u.page = 2 THEN [entries |-> p2, next |-> FALSE]
      ELSE EmptyPage] :
   p1 \in [1..3 -> E],
   p2 \in UNION {{<<e, NamelessEntry>>, <<NamelessEntry, e>>} : e \in E}}

ExampleWebs == DatasetWebs(ExampleEntries)

\* SpecExample: one run over the two-page dataset, on an empty store that
\* answers every query, or without a pool.
InitExample ==
  /\ InitService({"i1"}, 1, 0, 0)
  /\ \A i \in Instances : ~cronActive[i]
  /\ dbPool \in BOOLEAN
  /\ dbFaulty = FALSE
  /\ useApify = FALSE
  /\ NoScoring
  /\ cb = [w \in Worlds |-> NewWorld]
  /\ web \in ExampleWebs

NextExample ==
  \/ \E r \in RunIds, i \in Instances : StartFullScraping(r, i)
  \/ \E r \in RunIds : CreateScrapingSession(r)
  \/ \E r \in RunIds : ScrapeServedPage(r)
  \/ \E r \in RunIds : CheckDuplicate(r)
  \/ \E r \in RunIds : InsertLead(r)
  \/ \E r \in RunIds : CloseCompleted(r)
  \/ \E r \in RunIds : FinishRun(r)

SpecExample == InitExample /\ [][NextExample]_vars

\* SpecFaults: one run over two categories of each source; a page fetch
\* may fail after its retries and a query may be rejected, with or
\* without the Apify backend.
InitFaults ==
  /\ InitWithCategories({"i1"}, 1, MaxNextSignals, MaxListings, MaxCategories + 1)
  /\ \A i \in Instances : ~cronActive[i]
  /\ dbPool = TRUE
  /\ dbFaulty = TRUE
  /\ useApify \in BOOLEAN
  /\ NoScoring
  /\ NoCachedRun
  /\ NoLocking

NextFaults ==
  \/ \E r \in RunIds, i \in Instances : StartFullScraping(r, i)
  \/ \E r \in RunIds : CreateScrapingSession(r)
  \/ \E r \in RunIds : ScrapePage(r)
  \/ \E r \in RunIds : ScrapeApifyCategory(r)
  \/ \E r \in RunIds : CheckDuplicate(r)
  \/ \E r \in RunIds : InsertLead(r)
  \/ \E r \in RunIds : CloseCompleted(r)
  \/ \E r \in RunIds : FinishRun(r)

SpecFaults == InitFaults /\ [][NextFaults]_vars

\* Two listings of different businesses.
FaultEntries ==
  { Entry("  Acme   SA ", "55-1234-5678", " Calle  1 ", "http://acme.mx"),
    Entry("Beta SA", "55-8765-4321", "", NULL) }

\* SpecSaveFaults: one run over a two-page dataset while the store may
\* reject any query.
InitSaveFaults ==
  /\ InitService({"i1"}, 1, 0, 0)
  /\ \A i \in Instances : ~cronActive[i]
  /\ dbPool = TRUE
  /\ dbFaulty = TRUE
  /\ useApify = FALSE
  /\ NoScoring
  /\ cb = [w \in Worlds |-> NewWorld]
  /\ web \in DatasetWebs(FaultEntries)

NextSaveFaults ==
  \/ \E r \in RunIds, i \in Instances : StartFullScraping(r, i)
  \/ \E r \in RunIds : CreateScrapingSession(r)
  \/ \E r \in RunIds : ScrapeServedPage(r)
  \/ \E r \in RunIds : CheckDuplicate(r)
  \/ \E r \in RunIds : InsertLead(r)
  \/ \E r \in RunIds : CloseCompleted(r)
  \/ \E r \in RunIds : FinishRun(r)

SpecSaveFaults == InitSaveFaults /\ [][NextSaveFaults]_vars

\* SpecSecond: the same run with the lead loop of the second revision.
NextSecond ==
  \/ \E r \in RunIds, i \in Instances : StartFullScraping(r, i)
  \/ \E r \in RunIds : CreateScrapingSession(r)
  \/ \E r \in RunIds : ScrapeServedPage(r)
  \/ \E r \in RunIds : CheckDuplicate(r)
  \/ \E r \in RunIds : InsertLeadUnguarded(r)
  \/ \E r \in RunIds : CloseCompleted(r)
  \/ \E r \in RunIds : FinishRun(r)

SpecSecond == InitSaveFaults /\ [][NextSecond]_vars

\* SpecSecondApify: one run of the second revision with USE_APIFY=true
\* and the Apify scraper initialised, while the store may reject a query.
InitSecondApify ==
  /\ InitService({"i1"}, 1, 0, 0)
  /\ \A i \in Instances : ~cronActive[i]
  /\ dbPool = TRUE
  /\ dbFaulty = TRUE
  /\ useApify = TRUE
  /\ NoScoring
  /\ cb = [w \in Worlds |-> NewWorld]
  /\ web \in DatasetWebs(FaultEntries)

NextSecondApify ==
  \/ \E r \in RunIds, i \in Instances : StartFullScraping(r, i)
  \/ \E r \in RunIds : CreateScrapingSession(r)
  \/ \E r \in RunIds : ScrapeServedPage(r)
  \/ \E r \in RunIds : ScrapeWithApifySecond(r)
  \/ \E r \in RunIds : CheckDuplicate(r)
  \/ \E r \in RunIds : InsertLeadUnguarded(r)
  \/ \E r \in RunIds : CloseCompleted(r)
  \/ \E r \in RunIds : FinishRun(r)

SpecSecondApify == InitSecondApify /\ [][NextSecondApify]_vars

\* SpecRestart: two runs over a two-page dataset and restarts of the idle
\* process, with or without a pool; with a pool a query may be rejected.
\* autoStart is off.
InitRestart ==
  /\ InitService({"i1"}, 2, 0, 0)
  /\ \A i \in Instances : ~cronActive[i]
  /\ dbPool \in BOOLEAN
  /\ dbFaulty = dbPool
  /\ useApify = FALSE
  /\ NoScoring
  /\ cb = [w \in Worlds |-> NewWorld]
  /\ web \in DatasetWebs({Entry("Beta SA", "55-8765-4321", "", NULL)})

NextRestart ==
  \/ \E r \in RunIds, i \in Instances : StartFullScraping(r, i)
  \/ \E r \in RunIds : CreateScrapingSession(r)
  \/ \E r \in RunIds : ScrapeServedPage(r)
  \/ \E r \in RunIds : CheckDuplicate(r)
  \/ \E r \in RunIds : InsertLead(r)
  \/ \E r \in RunIds : CloseCompleted(r)
  \/ \E r \in RunIds : FinishRun(r)
  \/ \E i \in Instances : Restart(i)

SpecRestart == InitRestart /\ [][NextRestart]_vars

\* SpecCacheFault: two runs over the dataset; the write of the summary to
\* the cache may fail.
NextCacheFault ==
  \/ \E r \in RunIds, i \in Instances : StartFullScraping(r, i)
  \/ \E r \in RunIds : CreateScrapingSession(r)
  \/ \E r \in RunIds : ScrapeServedPage(r)
  \/ \E r \in RunIds : CheckDuplicate(r)
  \/ \E r \in RunIds : InsertLead(r)
  \/ \E r \in RunIds : CloseCompleted(r)
  \/ \E r \in RunIds : FinishRun(r)
  \/ \E r \in RunIds : FinishRunUncached(r)

SpecCacheFault == InitRestart /\ [][NextCacheFault]_vars

\* SpecCategory: one run whose categories may reach the page cap, while
\* a fetch or an insert may fail.
InitCategory ==
  /\ InitService({"i1"}, 1, maxPagesPerCategory, MaxListings)
  /\ \A i \in Instances : ~cronActive[i]
  /\ dbPool = TRUE
  /\ dbFaulty = TRUE
  /\ useApify = FALSE
  /\ NoScoring
  /\ NoCachedRun

NextCategoryRuns ==
  \/ \E r \in RunIds, i \in Instances : StartFullScraping(r, i)
  \/ \E r \in RunIds : CreateScrapingSession(r)
  \/ \E r \in RunIds : ScrapePage(r)
  \/ \E r \in RunIds : CheckDuplicate(r)
  \/ \E r \in RunIds : InsertLead(r)
  \/ \E r \in RunIds : CloseCompleted(r)
  \/ \E r \in RunIds : FinishRun(r)

SpecCategory == InitCategory /\ [][NextCategoryRuns]_vars

\* SpecRequest: makeRequest called once for each of three URLs, every
\* attempt free to succeed or fail.
InitRequest ==
  /\ InitService({}, 0, 0, 0)
  /\ dbPool = FALSE
  /\ dbFaulty = FALSE
  /\ useApify = FALSE
  /\ NoScoring
  /\ NoCachedRun

NextRequest ==
  \/ \E u \in Urls : MakeRequest(u)
  \/ \E u \in Urls : AttemptSucceeds(u)
  \/ \E u \in Urls : AttemptFails(u)
  \/ \E u \in Urls : RetryRequest(u)

SpecRequest == InitRequest /\ [][NextRequest]_vars

-----------------------------------------------------------------------------
(* Claims.                                                                 *)

ActiveRunsOf(i) == {r \in RunIds : Active(r) /\ runs[r].inst = i}

\* C1: at most one run is active per ScraperService instance, whatever the
\* interleaving of startFullScraping(), stop() and scheduler ticks.
C1_AtMostOneActiveRun ==
  \A i \in Instances : Cardinality(ActiveRunsOf(i)) <= 1

Terminal(row) == row.status \in {"completed", "failed"}

\* C2: a session leaves `running` exactly once, for `completed` or `failed`;
\* a terminal session is never written again, and no run ends with its
\* session still `running`.
C2_SessionTerminality ==
  [][\A r \in RunIds :
       /\ Terminal(sessions[r]) => sessions'[r] = sessions[r]
       /\ (Active(r) /\ runs'[r].pc = "done") => sessions'[r].status # "running"]_vars

\* C3: every run returns the service to Idle: when startFullScraping()
\* returns or throws, isRunning is false (so that the next start is
\* accepted), and every started run gets there.
C3_RunReturnsToIdle ==
  /\ [][\A r \in RunIds :
          (Active(r) /\ runs'[r].pc = "done") => ~isRunning'[runs[r].inst]]_vars
  /\ \A r \in RunIds : Active(r) ~> (runs[r].pc = "done")

\* A run has thrown, closing its session failed as well, and the service
\* is idle again.
C3_Witness ==
  \E r \in RunIds :
     /\ runs[r].pc = "done" /\ runs[r].outcome = "threw"
     /\ sessions[r].status = "running"
     /\ ~isRunning[runs[r].inst]

SameKey(x, y) == x.business_name = y.business_name /\ x.phone = y.phone

LeadKeys == {<<leadRows[k].business_name, leadRows[k].phone>> : k \in DOMAIN leadRows}

\* C4: saving a lead that was saved before answers isNew:false and inserts
\* nothing, whichever optional fields the lead carries: the store never
\* holds two rows for one (companyName, phone), and a run that has saved
\* its leads one after the other reports one new lead per stored key.
C4_SecondSaveIsDuplicate ==
  /\ \A j, k \in DOMAIN leadRows : SameKey(leadRows[j], leadRows[k]) => j = k
  /\ \A r \in RunIds :
       runs[r].pc = "cache" => runs[r].results.newLeads = Cardinality(LeadKeys)

\* C5: two writers saving the same lead never leave two rows for the same
\* (companyName, phone); stated for leads that carry a phone, whose earlier
\* row checkDuplicate finds whenever the two saves do not overlap.
C5_NoConcurrentDoubleInsert ==
  \A j, k \in DOMAIN leadRows :
     (SameKey(leadRows[j], leadRows[k]) /\ leadRows[j].phone # NULL) => j = k

\* C6: no stored lead has an empty companyName, and none has phone, email
\* and address all empty, whichever parser or backend produced it.
C6_OnlyValidLeadsStored ==
  \A k \in DOMAIN leadRows :
     /\ Truthy(leadRows[k].business_name)
     /\ \/ Truthy(leadRows[k].phone)
        \/ Truthy(leadRows[k].email)
        \/ Truthy(leadRows[k].address)

\* C7: the page loop of a category fetches at most maxPagesPerCategory
\* pages: a page is only fetched while fewer than that were fetched.
C7_PageCap ==
  [][\A r \in RunIds :
       (runs[r].pc = "page" /\ runs'[r] # runs[r])
          => runs[r].fetches + 1 <= maxPagesPerCategory]_vars

\* A category ended after ten fetched pages although every one of them,
\* the tenth included, announced a next page.
C7_Witness ==
  /\ nextLeft = 0
  /\ \E r \in RunIds :
       \E s \in DOMAIN runs[r].results.sources :
          \E c \in DOMAIN runs[r].results.sources[s].categories :
             runs[r].results.sources[s].categories[c].pages = maxPagesPerCategory

RECURSIVE SumSources(_, _, _)
SumSources(sources, field, k) ==
  IF k = 0 THEN 0
  ELSE sources[SourceNames[k]][field] + SumSources(sources, field, k - 1)

\* Every category of the source ended without a fetched page.
AllFetchesFailed(res) ==
  \A c \in DOMAIN res.categories : res.categories[c].pages = 0

\* C8: when every fetch of every category of a source fails, the sources
\* after it are still scraped in the same run, their counts are in the
\* summary's sources map and totals, and the session is closed as
\* completed.
C8_FailedSourceIsolated ==
  \A r \in RunIds :
     runs[r].pc = "cache" =>
       LET res == runs[r].results
       IN  \A a \in 1..Len(SourceNames) :
              (SourceNames[a] \in DOMAIN res.sources
                 /\ AllFetchesFailed(res.sources[SourceNames[a]]))
              => /\ \A b \in (a + 1)..Len(SourceNames) :
                       SourceNames[b] \in DOMAIN res.sources
                 /\ res.totalLeads = SumSources(res.sources, "totalLeads", Len(SourceNames))
                 /\ res.newLeads = SumSources(res.sources, "newLeads", Len(SourceNames))
                 /\ res.duplicates = SumSources(res.sources, "duplicates", Len(SourceNames))
                 /\ sessions[r].status # "none" => sessions[r].status = "completed"

Populated(lead) == {f \in OptionalFields : Truthy(lead[f])}

Weight(f) ==
  CASE f = "phone"    -> 30
    [] f = "email"    -> 20
    [] f = "website"  -> 15
    [] f = "address"  -> 10
    [] f = "category" -> 5

RECURSIVE SumWeights(_)
SumWeights(F) ==
  IF F = {} THEN 0
  ELSE LET f == CHOOSE x \in F : TRUE IN Weight(f) + SumWeights(F \ {f})

Scored == DOMAIN scores # {} /\ \A x \in DOMAIN scores : scores[x] >= 0

\* C9: for each presence combination of phone, email, website, address and
\* category the score is min(1.00, 0.50 + the weights of the present
\* fields), in hundredths, and so lies in [0.50, 1.00].
C9_ScoreIsCappedWeightedSum ==
  Scored => \A x \in DOMAIN scores :
              /\ scores[x] = Min(100, 50 + SumWeights(Populated(cands[x])))
              /\ scores[x] >= 50 /\ scores[x] <= 100

\* A lead with all five fields has been scored at the cap.
C9_Witness ==
  Scored /\ \E x \in DOMAIN scores :
              Populated(cands[x]) = OptionalFields /\ scores[x] = 100

\* C10 as stated: of two candidates, the one with more populated optional
\* fields has the strictly higher score.
C10_StrictlyIncreasingInCount ==
  Scored => \A x, y \in DOMAIN scores :
              Cardinality(Populated(cands[x])) > Cardinality(Populated(cands[y]))
                => scores[x] > scores[y]

\* C10: a candidate that populates every field another one populates, and
\* more, scores strictly higher unless it is at the cap of 1.00, and never
\* lower.
C10_IncreasingInFieldsUpToCap ==
  Scored => \A x, y \in DOMAIN scores :
              (Populated(cands[y]) \subseteq Populated(cands[x])
                 /\ Populated(cands[y]) # Populated(cands[x]))
                => (scores[x] > scores[y] \/ (scores[x] = 100 /\ scores[y] = 100))

\* Two candidates, one populating strictly more fields, both at the cap.
C10_Witness ==
  Scored /\ \E x, y \in DOMAIN scores :
              /\ Populated(cands[y]) \subseteq Populated(cands[x])
              /\ Populated(cands[y]) # Populated(cands[x])
              /\ scores[x] = 100 /\ scores[y] = 100

\* The delays makeRequest has waited after k failed attempts.
RECURSIVE LinearBackoff(_)
LinearBackoff(k) == IF k = 0 THEN <<>> ELSE Append(LinearBackoff(k - 1), retryDelay * k)

\* C11: makeRequest issues at most maxRetries + 1 attempts for one URL; it
\* returns at the first attempt that succeeds, waits retryDelay * k after
\* the k-th failure while k <= maxRetries, and fails to the caller after
\* the (maxRetries + 1)-th failure without another attempt.
C11_BoundedRetriesWithLinearBackoff ==
  \A u \in Urls :
     /\ req[u].attempts <= maxRetries + 1
     /\ req[u].pc # "idle" => req[u].attempts = req[u].retries + 1
     /\ req[u].pc \in {"attempt", "returned"}
          => req[u].delays = LinearBackoff(req[u].attempts - 1)
     /\ req[u].pc = "delay"
          => req[u].attempts <= maxRetries /\ req[u].delays = LinearBackoff(req[u].attempts)
     /\ req[u].pc = "threw"
          => req[u].attempts = maxRetries + 1 /\ req[u].delays = LinearBackoff(maxRetries)

\* One call has failed after its fourth attempt, another has returned
\* after a retry.
C11_Witness ==
  \E u, v \in Urls :
     /\ req[u].pc = "threw" /\ req[u].attempts = maxRetries + 1
     /\ req[v].pc = "returned" /\ req[v].attempts > 1

\* C12: a scheduler tick starts a run only if the service is idle at the
\* tick; a tick during a run starts nothing and leaves nothing behind, so
\* a run only ever starts in a tick taken while the service is idle.
C12_TickStartsOnlyWhenIdle ==
  [][\A r \in RunIds :
       (runs[r].pc = "idle" /\ runs'[r].pc # "idle")
          => /\ ~isRunning[runs'[r].inst] /\ cronActive[runs'[r].inst]
             /\ \A q \in RunIds : ~(Active(q) /\ runs[q].inst = runs'[r].inst)]_vars

\* The ticks during the first run started nothing; a tick after it has
\* started the second run.
C12_Witness ==
  /\ runs["r1"].pc = "done"
  /\ Active("r2") /\ isRunning[runs["r2"].inst] /\ cronActive[runs["r2"].inst]

\* C13: once stop() was called during a run, the run fetches no page
\* beyond the one in flight: while it is still fetching or saving, it is
\* in the category it was stopped in, within the pages counted at the stop.
C13_StopEndsPageLoop ==
  \A r \in RunIds :
     (stopAt[r] # NoStop /\ runs[r].pc \in {"page", "apify", "check", "insert"})
        => /\ runs[r].src = stopAt[r].src /\ runs[r].cat = stopAt[r].cat
           /\ runs[r].fetches + (IF runs[r].pc = "page" THEN 1 ELSE 0) <= stopAt[r].pages

EnabledSources == {SourceNames[k] : k \in {j \in 1..Len(SourceNames) : SourceEnabled(SourceNames[j])}}

\* C14: a run whose options name a disabled or unknown source fails before
\* any I/O: it inserts no session row and never gets to fetch or save.
C14_BadSourceFailsFast ==
  \A r \in RunIds :
     ~(options[r].sources \subseteq EnabledSources)
        => /\ sessions[r] = NoSession
           /\ runs[r].pc \notin {"page", "apify", "check", "insert", "close", "cache"}

\* C15: a run started for one source and one category fetches pages of
\* that source and category only, and saves leads of that source only.
C15_OnlyRequestedSourceAndCategory ==
  \A r \in RunIds :
     options[r].sources # {}
        => /\ runs[r].pc \in {"page", "apify", "check", "insert"}
                => /\ SourceOf(runs[r]) \in options[r].sources
                   /\ CategoryOf(runs[r]) \in options[r].categories
           /\ \A k \in DOMAIN leadRows :
                 leadRows[k].job_id = r => leadRows[k].source \in options[r].sources

\* C16: when an exception escapes the body of a run, the run's session is
\* closed with status failed and the call rejects with that exception.
C16_EscapedExceptionClosesFailed ==
  \A r \in RunIds :
     (runs[r].pc = "done" /\ runs[r].outcome = "threw" /\ sessions[r] # NoSession)
        => /\ sessions[r].status = "failed"
           /\ sessions[r].error

\* C19: with the window's permits used up, a run that is about to fetch a
\* page stays where it is until a permit is free; it does not lose the
\* page or the category.
C19_FetchWaitsForPermit ==
  [][\A r \in RunIds :
       (runs[r].pc = "page" /\ ~Consumable(limiter.points)) => runs'[r] = runs[r]]_vars

\* C17: when storage does not answer at the start of a run, the run is not
\* aborted: startFullScraping returns its summary.
C17_RunSurvivesStorageOutage ==
  \A w \in Worlds :
     (cb[w].pc = "done" /\ ~cb[w].storageUp) => cb[w].outcome = "returned"

\* C18: with the same sites and the same initial store, a run persists the
\* same leads and every saveLead answers the same, whatever the state of
\* the cache.
C18_CacheIsNoCorrectnessDependency ==
  (\A w \in Worlds : cb[w].pc = "done" /\ cb[w].outcome = "returned")
     => /\ cb["a"].rows = cb["b"].rows
        /\ cb["a"].saved = cb["b"].saved

\* C20: within one budget window a source never receives more requests
\* than its rateLimit.
C20_RequestsWithinBudget ==
  \A w \in Worlds :
     \A s \in DOMAIN cb[w].sent : cb[w].sent[s] <= CachedRateLimit(s)

\* The leads of the first category of the first source in the dataset.
ExampleLeads ==
  LET p(n) == web[[src |-> 1, cat |-> 1, page |-> n]].entries
  IN  parseLeads(p(1), SourceNames[1], Categories(SourceNames[1])[1])
        \o parseLeads(p(2), SourceNames[1], Categories(SourceNames[1])[1])

\* No two leads of the dataset have the same (companyName, phone).
ExampleLeadsDiffer ==
  \A j, k \in DOMAIN ExampleLeads :
     (ExampleLeads[j].company_name = ExampleLeads[k].company_name
        /\ ExampleLeads[j].phone = ExampleLeads[k].phone) => j = k

ExampleCategoryResult(u) ==
  LET s == SourceNames[1]
      c == Categories(s)[1]
  IN  /\ s \in DOMAIN u.results.sources
      /\ c \in DOMAIN u.results.sources[s].categories
      /\ u.results.sources[s].categories[c]
           = [totalLeads |-> 4, newLeads |-> 4, duplicates |-> 0, pages |-> 2]
      /\ u.results.errors = 0

RecordedIn(v, s) ==
  IF s \in DOMAIN v.results.sources THEN v.results.sources[s] ELSE v.srcRes

\* The step of run r is a page fetch that failed: the category is recorded
\* with no page added to those already counted.
FetchFailed(r) ==
  LET u == runs[r]
      v == runs'[r]
  IN  /\ u.pc = "page"
      /\ v # u
      /\ CategoryOf(u) \in DOMAIN RecordedIn(v, SourceOf(u)).categories
      /\ RecordedIn(v, SourceOf(u)).categories[CategoryOf(u)].pages = u.catRes.pages

\* The run is at the head of the category that follows (src, cat), or
\* past the last source.
AtSuccessor(v, src, cat) ==
  IF cat < Len(Categories(SourceNames[src]))
  THEN v.pc \in {"page", "apify"} /\ v.src = src /\ v.cat = cat + 1
  ELSE IF src < Len(SourceNames)
  THEN v.pc \in {"page", "apify"} /\ v.src = src + 1 /\ v.cat = 1
  ELSE v.pc = "close"

\* C22: when a page fetch fails for good, the category ends with the
\* counts of its earlier pages, the run goes on with the next category of
\* the source or with the next source, and it never comes back to a
\* category it has left.
C22_FailedFetchEndsCategoryOnly ==
  [][\A r \in RunIds :
       /\ FetchFailed(r)
            => /\ RecordedIn(runs'[r], SourceOf(runs[r])).categories[CategoryOf(runs[r])]
                    = runs[r].catRes
               /\ AtSuccessor(runs'[r], runs[r].src, runs[r].cat)
       /\ (runs[r].pc \in {"page", "apify", "check", "insert"}
             /\ runs'[r].pc \in {"page", "apify", "check", "insert"})
            => \/ runs'[r].src > runs[r].src
               \/ runs'[r].src = runs[r].src /\ runs'[r].cat >= runs[r].cat]_vars

\* A first category whose first fetch failed, the second category of the
\* same source and a later source scraped all the same.
C22_Witness ==
  \E r \in RunIds :
     LET res == runs[r].results
         s1  == SourceNames[1]
         s2  == SourceNames[2]
     IN  /\ runs[r].pc = "close"
         /\ res.sources[s1].categories[Categories(s1)[1]].pages = 0
         /\ res.sources[s1].categories[Categories(s1)[2]].pages >= 1
         /\ res.sources[s2].categories[Categories(s2)[1]].pages >= 1

\* Errors the run has tallied so far.
TalliedErrors(v) ==
  IF v.pc = "close" THEN v.results.errors ELSE v.results.errors + v.srcRes.errors

\* C23: a category whose page loop is ended by a failed fetch adds one to
\* the errors of its source, and so to the errors of the run.
C23_FailedFetchTalliesOneError ==
  [][\A r \in RunIds :
       FetchFailed(r) => TalliedErrors(runs'[r]) = TalliedErrors(runs[r]) + 1]_vars

\* The step of run r is a saveLead call that threw: the insert was
\* rejected and no row was written.
SaveFailed(r) ==
  /\ runs[r].pc = "insert"
  /\ runs'[r] # runs[r]
  /\ leadRows' = leadRows

\* C24: when saveLead throws for a candidate, the next candidate of the
\* page is attempted, and after the last candidate the page loop goes on
\* to the next page when the page linked to one.
C24_FailedSaveAbortsNothing ==
  [][\A r \in RunIds :
       SaveFailed(r)
         => LET u == runs[r]
                v == runs'[r]
            IN  IF Len(u.leads) > 1
                THEN /\ v.pc = "check"
                     /\ v.leads = Tail(u.leads)
                     /\ v.src = u.src /\ v.cat = u.cat /\ v.page = u.page
                ELSE LoopContinues(u.next, u.page + 1)
                       => /\ v.pc = "page"
                          /\ v.src = u.src /\ v.cat = u.cat /\ v.page = u.page + 1]_vars

\* C25: every saveLead call that throws adds one to the errors the run
\* tallies.
C25_FailedSaveTalliesOneError ==
  [][\A r \in RunIds :
       SaveFailed(r) => TalliedErrors(runs'[r]) = TalliedErrors(runs[r]) + 1]_vars

\* C26: whenever a run is about to fetch page N + 1 of a category, pages
\* 1..N have been fetched, in that order, and every lead of theirs has
\* been through saveLead: none is pending and each is tallied.
C26_PagesFetchedAndSavedInOrder ==
  \A r \in RunIds :
     runs[r].pc = "page"
        => /\ runs[r].leads = <<>>
           /\ runs[r].catRes.pages = runs[r].page - 1
           /\ runs[r].catRes.newLeads + runs[r].catRes.duplicates
                = runs[r].catRes.totalLeads

C26_Witness ==
  \E r \in RunIds :
     /\ runs[r].pc = "page"
     /\ runs[r].src = 1
     /\ runs[r].page = 2
     /\ runs[r].catRes.totalLeads = 3
     /\ Len(leadRows) >= 2

\* The store holds a row with exactly this company name and phone.
ExactMatch(rows, companyName, phone) ==
  \E k \in DOMAIN rows : rows[k].company_name = companyName /\ rows[k].phone = phone

\* C27: a duplicate check answered by the cache makes no storage query,
\* and any other check answers whether the store holds a row with the
\* lead's (companyName, phone).
C27_CheckIsCacheThenExactMatch ==
  [][\A w \in Worlds :
       (cb[w].pc = "save" /\ cb'[w] # cb[w])
          => LET lead == Head(cb[w].leads)
                 res  == cb'[w].check
             IN  /\ res.hit => (res.answer /\ ~res.queried)
                 /\ ~res.hit
                      => (res.answer
                            <=> ExactMatch(cb[w].rows, lead.company_name, lead.phone))]_vars

\* C28: after saveLead has returned isNew: true for a lead (a row was
\* inserted), the cache holds the duplicate marker of its (companyName,
\* phone), so that the duplicate check repeated at once for the same lead
\* is a cache hit and sends no query to the store.
C28_NewLeadIsMarkedInCache ==
  [][\A w \in Worlds :
       (cb[w].pc = "save" /\ Len(cb'[w].rows) > Len(cb[w].rows))
          => LET lead  == Head(cb[w].leads)
                 again == checkDuplicateCached(cb'[w], lead.company_name, lead.phone)
             IN  /\ DuplicateKey(lead.company_name, lead.phone) \in cb'[w].dups
                 /\ again.hit
                 /\ ~again.queried]_vars

\* C29: when the duplicate check reports a duplicate, saveLead returns
\* isNew: false and writes nothing: the rows of the store and the markers
\* of the cache are the same after the call as before it.
C29_DuplicateWritesNothing ==
  [][\A w \in Worlds :
       (cb[w].pc = "save" /\ cb'[w] # cb[w] /\ cb'[w].check.answer)
          => /\ cb'[w].rows = cb[w].rows
             /\ cb'[w].dups = cb[w].dups
             /\ Len(cb'[w].saved) = Len(cb[w].saved) + 1
             /\ ~cb'[w].saved[Len(cb'[w].saved)].isNew]_vars

\* A duplicate has been reported from the store, with the cache down, and
\* one from the cache.
C29_Witness ==
  /\ \E w \in Worlds :
       /\ ~cb[w].cacheUp
       /\ cb[w].check.answer /\ cb[w].check.queried
       /\ cb[w].saved # <<>> /\ ~cb[w].saved[Len(cb[w].saved)].isNew
  /\ \E w \in Worlds :
       /\ cb[w].check.hit
       /\ cb[w].saved # <<>> /\ ~cb[w].saved[Len(cb[w].saved)].isNew

\* The sum of a field over the entries of a map (sources or categories).
RECURSIVE SumEntries(_, _, _)
SumEntries(map, field, keys) ==
  IF keys = {} THEN 0
  ELSE LET k == CHOOSE x \in keys : TRUE
       IN  map[k][field] + SumEntries(map, field, keys \ {k})

TotalsAreSums(res) ==
  /\ \A f \in {"totalLeads", "newLeads", "duplicates", "errors"} :
        res[f] = SumEntries(res.sources, f, DOMAIN res.sources)
  /\ \A s \in DOMAIN res.sources :
        \A f \in {"totalLeads", "newLeads", "duplicates"} :
           res.sources[s][f]
             = SumEntries(res.sources[s].categories, f, DOMAIN res.sources[s].categories)

CompletedSessions == {r \in RunIds : sessions[r].status = "completed"}

\* C31: at a process restart loadStats() yields totalSessions equal to the
\* number of sessions stored as completed and totalLeads equal to the sum
\* of their final_stats.totalLeads, and both equal the in-memory stats the
\* service held just before the restart.
C31_RestartRestoresStats ==
  [][\A i \in Instances :
       boots'[i] # boots[i]
          => /\ stats'[i].totalSessions = Cardinality(CompletedSessions)
             /\ stats'[i].totalLeads = SumTotalLeads(sessions, CompletedSessions)
             /\ stats'[i] = stats[i]]_vars

\* Runs of an instance that have passed the increment of the stats.
CountedRuns(i) ==
  {q \in RunIds : /\ runs[q].inst = i
                  /\ \/ runs[q].pc = "cache"
                     \/ runs[q].pc = "done" /\ runs[q].outcome = "returned"}

\* C32: once the session is closed as completed, the write of the summary
\* to the cache, failing or not, is followed by the return of the summary:
\* the session row and the stats are left as they are, and the stats have
\* counted each such run once.
C32_CacheFailureIsContained ==
  [][\A r \in RunIds :
       (runs[r].pc = "cache" /\ runs'[r] # runs[r] /\ sessions[r].status = "completed")
          => /\ runs'[r].pc = "done"
             /\ runs'[r].outcome = "returned"
             /\ sessions'[r] = sessions[r]
             /\ stats' = stats
             /\ ~isRunning'[runs[r].inst]
             /\ stats[runs[r].inst].totalSessions = Cardinality(CountedRuns(runs[r].inst))]_vars

\* Both runs have returned after a failed cache write, their sessions
\* closed as completed.
C32_Witness ==
  \A r \in RunIds :
     /\ runs[r].pc = "done" /\ runs[r].cacheFailed /\ runs[r].outcome = "returned"
     /\ sessions[r].status = "completed"
     /\ stats[runs[r].inst].totalSessions = Cardinality(RunIds)

\* C33: a page fetch that follows another of the same category starts
\* after a delay of rateLimitDelay, and the first page fetch of a category
\* that follows another category of the same source starts after a delay
\* of at least 2 * rateLimitDelay since the last fetch, also when the
\* earlier category ended with a failed page.
C33_DelaysBetweenFetches ==
  \A r \in RunIds :
     runs[r].pc = "page" =>
       /\ runs[r].page > 1 => runs[r].slept = rateLimitDelay
       /\ (runs[r].page = 1 /\ runs[r].cat > 1) => runs[r].slept >= 2 * rateLimitDelay

\* A run is about to fetch the first page of the second category after the
\* only fetch of the first category failed.
C33_Witness ==
  \E r \in RunIds :
     /\ runs[r].pc = "page" /\ runs[r].cat = 2 /\ runs[r].page = 1
     /\ runs[r].srcRes.categories[Categories(SourceOf(runs[r]))[1]].pages = 0
     /\ runs[r].slept = 2 * rateLimitDelay

\* C35: every category result scrapeCategory returns has at most 10
\* pages, as many pages as scrapePage calls succeeded, and newLeads +
\* duplicates <= totalLeads, with equality exactly when no saveLead call
\* threw.
C35_CategoryResultIsConsistent ==
  \A r \in RunIds :
     LET e == runs[r].ended
     IN  e.any =>
           /\ e.res.pages <= maxPagesPerCategory
           /\ e.res.pages = e.okPages
           /\ e.res.newLeads + e.res.duplicates <= e.res.totalLeads
           /\ (e.res.newLeads + e.res.duplicates = e.res.totalLeads) <=> (e.threw = 0)

\* A category has ended at the page cap, and one after a saveLead call
\* that threw.
C35_Witness ==
  \E r \in RunIds :
     /\ runs[r].ended.any
     /\ runs[r].ended.threw > 0
     /\ runs[r].ended.res.newLeads + runs[r].ended.res.duplicates
          < runs[r].ended.res.totalLeads
     /\ \E s \in DOMAIN runs[r].results.sources :
          \E c \in DOMAIN runs[r].results.sources[s].categories :
             runs[r].results.sources[s].categories[c].pages = maxPagesPerCategory

\* The keys of the leads saveLead has answered for, as new or duplicate.
SavedKeys(c) == {c.saved[k].key : k \in 1..Len(c.saved)}

\* The keys of the leads parsed from the page at a URL.
PageKeys(url) ==
  LET leads == parseLeadsCached(web[url].entries, CachedSourceNames[url.src])
  IN  {DuplicateKey(leads[k].company_name, leads[k].phone) : k \in 1..Len(leads)}

\* C36: once a run has ended, a URL carries the 'already scraped' marker
\* only if every lead extracted from its page was inserted or found to be
\* a duplicate, so that no lead whose save failed is shut out of later
\* runs.
C36_MarkedOnlyWhenAllLeadsSaved ==
  \A w \in Worlds :
     cb[w].pc = "done" =>
       \A url \in cb[w].urls : PageKeys(url) \subseteq SavedKeys(cb[w])

\* The rows of the store, by key.
RowKeys(c) == {DuplicateKey(c.rows[k].company_name, c.rows[k].phone) : k \in 1..Len(c.rows)}

\* C37: a duplicate marker is in the cache for (companyName, phone) only if
\* the store holds a row with that key, so a cache hit never reports a lead
\* as duplicate that the store does not contain.
C37_MarkerImpliesRow ==
  \A w \in Worlds :
     /\ cb[w].dups \subseteq RowKeys(cb[w])
     /\ cb[w].check.hit
          => /\ cb[w].saved # <<>>
             /\ cb[w].saved[Len(cb[w].saved)].key \in RowKeys(cb[w])

\* A lead was answered from the cache as a duplicate after another lead's
\* save was rejected by the store.
C37_Witness ==
  \E w \in Worlds :
     /\ cb[w].cacheUp
     /\ cb[w].dups # {}
     /\ cb[w].lost # {}
     /\ cb[w].check.hit

\* The step of run r counted the page it fetched.
PageCounted(r) ==
  LET u == runs[r]
      v == runs'[r]
  IN  \/ /\ v.pc \in {"page", "check"} /\ v.src = u.src /\ v.cat = u.cat
         /\ v.catRes.pages = u.catRes.pages + 1
      \/ /\ CategoryOf(u) \in DOMAIN RecordedIn(v, SourceOf(u)).categories
         /\ RecordedIn(v, SourceOf(u)).categories[CategoryOf(u)].pages = u.catRes.pages + 1

\* C38: with the Apify backend enabled for paginasAmarillas, a scrapePage
\* call fails its page (and so ends the category) only after the Apify call
\* threw and the HTTP path for the same page failed too; when the HTTP
\* path answers after the Apify call threw, the page is counted.
C38_ApifyFailureFallsBack ==
  [][\A r \in RunIds :
       (runs[r].pc = "page" /\ runs'[r] # runs[r] /\ ApifyPage(runs[r]))
          => /\ FetchFailed(r) => runs'[r].fellBack
             /\ ~FetchFailed(r) => PageCounted(r)]_vars

\* A lead of a page fetched over HTTP after the Apify call threw is being
\* saved.
C38_Witness ==
  \E r \in RunIds :
     /\ useApify
     /\ runs[r].pc = "check"
     /\ SourceOf(runs[r]) = "paginasAmarillas"
     /\ runs[r].fellBack
     /\ runs[r].catRes.pages = 1

\* The calls that were given the lock and have neither released it nor
\* seen its key expire.
LiveHolders == {k \in Callers : lock.callers[k].live}

\* C39: at most one call of acquireLock holds the lock of a resource at a
\* time, a lock counting as held from the moment it is returned until
\* release() is called or the key's TTL runs out; release() removes the
\* key only when the key still holds the releasing call's own token, so a
\* live holder is never deprived of its key by another call's release();
\* and a call that was not refused for want of a connection returns null
\* exactly when `retries` SET commands have failed.
C39_LockIsExclusive ==
  /\ [](Cardinality(LiveHolders) <= 1)
  /\ [](\A k \in LiveHolders : lock.key = LockValue(k))
  /\ [][\A k \in Callers :
          (lock.callers[k].pc = "held" /\ lock'.callers[k].pc = "released")
             => /\ lock'.key = IF lock.key = LockValue(k) THEN NULL ELSE lock.key
                /\ \A j \in LiveHolders \ {k} :
                     lock'.callers[j].live /\ lock'.key = LockValue(j)]_vars
  /\ [](\A k \in Callers :
          LET c == lock.callers[k] IN
          /\ c.tries <= retries
          /\ c.pc = "set" => c.tries < retries
          /\ (c.pc = "null" /\ ~c.refused) => c.tries = retries
          /\ c.pc \in {"held", "released"} => c.tries <= retries)

\* One call released its lock after the key had expired and been taken by
\* a second call, which still holds it, while a third call has given up
\* after `retries` attempts.
C39_Witness ==
  \E k \in Callers, j \in Callers, m \in Callers :
     /\ lock.callers[k].pc = "released" /\ lock.callers[k].late
     /\ lock.callers[j].live /\ lock.key = LockValue(j)
     /\ lock.callers[m].pc = "null" /\ lock.callers[m].tries = retries

====
